---- MODULE Spec2Model ----
(***************************************************************************)
(* Body-modelling pipeline of Treads (backend/services/body_modeling.py)   *)
(* and the body-model API built on it (backend/api/body_modeling.py).      *)
(*                                                                         *)
(* Numbers.  Python floats are modelled in fixed point:                    *)
(*   - key-point coordinates and pixel distances in 1/CoordDen (0.001);    *)
(*   - visibility in 1/VisDen (0.01);                                      *)
(*   - heights in whole centimetres;                                       *)
(*   - scale factors in 1/ScaleDen (1/7200), the denominator in which      *)
(*     px/0.18, px/0.16, the clamp limits 0.7 / 1.3 / 0.8 / 1.2 and        *)
(*     (s + h)/2*0.8 are all exact;                                        *)
(*   - mesh coordinates in 1/MeshDen (1/720000), in which 0.2*s, 0.15*w,   *)
(*     0.18*h and c*height_scale are exact.                                *)
(* Square roots and the two quotients that are not exact in these units    *)
(* (height/170, leg/torso/1.3) are rounded down to the unit.               *)
(*                                                                         *)
(* Python values.  A dict is a function whose DOMAIN is its key set, a     *)
(* list is a sequence (index i of the list is element i+1), Optional[T]    *)
(* is None or Some(v), and a call that can raise returns a record with an  *)
(* "ok" field: [ok |-> TRUE, val |-> v] or [ok |-> FALSE, err |-> e].      *)
(***************************************************************************)
EXTENDS Integers, Sequences, FiniteSets, TLC

VARIABLES
    stage,          \* pipeline run: which step has completed
    landmarks_data, \* pipeline run: {"landmarks", "key_points", "total_landmarks"}
    user_height,    \* pipeline run: Optional[float] reference height (cm)
    measurements,   \* pipeline run: result of calculate_body_measurements
    model_params,   \* pipeline run: result of generate_3d_model_params
    mesh_data,      \* pipeline run: result of create_body_mesh
    error,          \* pipeline run: the exception raised by the failed step
    files,          \* API: uploads/body_models, file name -> content
    next_uuid,      \* API: number of uuid4() values drawn so far
    response,       \* API: the last HTTP response
    service_calls,  \* API: the service methods the last request ran, in order
    clock,          \* API: the value datetime.now() last returned
    clothing,       \* try-on: uploads/clothing, file name -> content
    sessions,       \* try-on: uploads/tryons, file name -> content
    fit_call,       \* try-on: the fit-analysis call being evaluated
    fit_result,     \* try-on: what that call returned
    runs            \* concurrent requests: arguments and locals of each

vars == <<stage, landmarks_data, user_height, measurements, model_params,
          mesh_data, error, files, next_uuid, response, service_calls,
          clock, clothing, sessions, fit_call, fit_result, runs>>

\* the locals of the single pipeline run
runVars == <<stage, landmarks_data, user_height, measurements, model_params,
             mesh_data, error>>

pipeVars == <<runVars, runs>>

tryonVars == <<clothing, sessions, fit_call, fit_result>>

apiVars == <<files, next_uuid, response, service_calls, clock, tryonVars>>

(***************************************************************************)
(* Units and bounds                                                        *)
(***************************************************************************)
CoordDen == 1000
VisDen == 100
ScaleDen == 7200
MeshDen == 720000

\* Bounds of the explored input space.
MaxWidthSteps == 4      \* shoulder / hip half-width: 0 .. MaxWidthSteps steps of 0.05
MaxStretch == 1         \* vertical stretch of the posture: 0 .. MaxStretch
MaxPxSteps == 4         \* given pixel measurements: 0 .. MaxPxSteps steps of 0.09
MaxScaleSteps == 19     \* given scale factors: 0.4 + 0 .. MaxScaleSteps steps of 0.05
MaxUploads == 2         \* uuid4() values the API draws

(***************************************************************************)
(* Python helpers                                                          *)
(***************************************************************************)
None == <<>>
Some(v) == <<v>>
Val(o) == o[1]

\* truthiness of an Optional[float]: None and 0 are falsy
Truthy(o) == o # None /\ Val(o) # 0

EmptyDict == [k \in {} |-> 0]

\* the value of a pipeline variable whose step has not run
NotRun == [not_run |-> TRUE]

Ok(v) == [ok |-> TRUE, val |-> v]
Raise(e) == [ok |-> FALSE, err |-> e]

\* d.get(k, default)
Get(d, k, default) == IF k \in DOMAIN d THEN d[k] ELSE default

\* d[k]: raises KeyError(k) when k is not a key
KeyError(k) == [type |-> "KeyError", arg |-> k]
Subscript(d, k) == IF k \in DOMAIN d THEN Ok(d[k]) ELSE Raise(KeyError(k))

Min(a, b) == IF a < b THEN a ELSE b
Max(a, b) == IF a > b THEN a ELSE b
Abs(a) == IF a < 0 THEN -a ELSE a

RECURSIVE SqrtSearch(_, _, _)
SqrtSearch(n, lo, hi) ==
    IF lo >= hi THEN lo
    ELSE LET mid == (lo + hi + 1) \div 2
         IN  IF mid * mid <= n THEN SqrtSearch(n, mid, hi)
             ELSE SqrtSearch(n, lo, mid - 1)

\* math.sqrt on a non-negative fixed-point square, rounded down to the unit
Sqrt(n) == SqrtSearch(n, 0, 46340)

\* d[k] = v on a copy of d
Put(d, k, v) == [x \in DOMAIN d \cup {k} |-> IF x = k THEN v ELSE d[x]]

\* the condition `d[a] and d[b]`: each subscript raises KeyError on a missing
\* key; a key point is a non-empty dict, hence truthy
AndSubscript(d, a, b) ==
    IF ~Subscript(d, a).ok THEN Subscript(d, a)
    ELSE IF ~Subscript(d, b).ok THEN Subscript(d, b)
    ELSE Ok(TRUE)

\* raise Exception(f"<what> failed: {str(e)}")
Wrapped(what, e) == [type |-> "Exception", what |-> what, cause |-> e]

(***************************************************************************)
(* Keypoint Deriver                                                        *)
(***************************************************************************)
Point(x, y, z) == [x |-> x, y |-> y, z |-> z]

mp_indices ==
    [nose |-> 0, left_shoulder |-> 11, right_shoulder |-> 12,
     left_elbow |-> 13, right_elbow |-> 14, left_wrist |-> 15,
     right_wrist |-> 16, left_hip |-> 23, right_hip |-> 24,
     left_knee |-> 25, right_knee |-> 26, left_ankle |-> 27,
     right_ankle |-> 28]

VisibilityThreshold == 50

\* per-axis mean of two points
MidPoint(p, q) ==
    Point((p.x + q.x) \div 2, (p.y + q.y) \div 2, (p.z + q.z) \div 2)

\* variant: visibility >= 0.5 retains a point
VisibleNames_inclusive(landmarks) ==
    {name \in DOMAIN mp_indices :
        /\ mp_indices[name] < Len(landmarks)
        /\ landmarks[mp_indices[name] + 1].visibility >= VisibilityThreshold}

\* the names retained by the visibility filter
VisibleNames(landmarks) ==
    {name \in DOMAIN mp_indices :
        /\ mp_indices[name] < Len(landmarks)
        /\ landmarks[mp_indices[name] + 1].visibility > VisibilityThreshold}

_extract_key_body_points(landmarks) ==
    LET named == VisibleNames(landmarks)
        derived ==
            (IF {"left_shoulder", "right_shoulder"} \subseteq named
             THEN {"shoulder_center"} ELSE {})
            \cup (IF {"left_hip", "right_hip"} \subseteq named
                  THEN {"hip_center"} ELSE {})
            \cup (IF {"left_ankle", "right_ankle"} \subseteq named
                  THEN {"ankle_center"} ELSE {})
        at(name) ==
            LET l == landmarks[mp_indices[name] + 1] IN Point(l.x, l.y, l.z)
    IN  [name \in named \cup derived |->
            CASE name = "shoulder_center" ->
                    MidPoint(at("left_shoulder"), at("right_shoulder"))
              [] name = "hip_center" ->
                    MidPoint(at("left_hip"), at("right_hip"))
              [] name = "ankle_center" ->
                    MidPoint(at("left_ankle"), at("right_ankle"))
              [] OTHER -> at(name)]

(***************************************************************************)
(* Measurement Estimator                                                   *)
(***************************************************************************)
_calculate_distance(point1, point2) ==
    Sqrt((point1.x - point2.x) * (point1.x - point2.x)
         + (point1.y - point2.y) * (point1.y - point2.y)
         + (point1.z - point2.z) * (point1.z - point2.z))

\* variant: the full 3D nose-to-ankle_center distance
_calculate_total_body_height_3d(key_points) ==
    IF "nose" \in DOMAIN key_points /\ "ankle_center" \in DOMAIN key_points
    THEN _calculate_distance(key_points["nose"], key_points["ankle_center"])
    ELSE 0

_calculate_total_body_height(key_points) ==
    IF "nose" \in DOMAIN key_points /\ "ankle_center" \in DOMAIN key_points
    THEN Abs(key_points["nose"].y - key_points["ankle_center"].y)
    ELSE 0

DefaultHeight == 170

_estimate_height(pixel_measurements) == DefaultHeight

\* user_height / total_height_px, in 1/CoordDen cm per pixel unit
ScaleFactor(height, total_height_px) ==
    (height * CoordDen * CoordDen) \div total_height_px

\* px_value * scale_factor, in 1/CoordDen cm
Scaled(px_value, scale_factor) == (px_value * scale_factor) \div CoordDen

\* the float 1.0 as a scale_factor
UnitFactor == 1000

calculate_body_measurements(ld, height) ==
    LET key_points == ld["key_points"]
        c1 == AndSubscript(key_points, "left_shoulder", "right_shoulder")
        c2 == AndSubscript(key_points, "shoulder_center", "hip_center")
        c3 == AndSubscript(key_points, "hip_center", "ankle_center")
        c4 == AndSubscript(key_points, "left_hip", "right_hip")
        pm1 == IF c1.val
               THEN Put(EmptyDict, "shoulder_width",
                        _calculate_distance(key_points["left_shoulder"],
                                            key_points["right_shoulder"]))
               ELSE EmptyDict
        pm2 == IF c2.val
               THEN Put(pm1, "torso_length",
                        _calculate_distance(key_points["shoulder_center"],
                                            key_points["hip_center"]))
               ELSE pm1
        pm3 == IF c3.val
               THEN Put(pm2, "leg_length",
                        _calculate_distance(key_points["hip_center"],
                                            key_points["ankle_center"]))
               ELSE pm2
        pixel_measurements ==
               IF c4.val
               THEN Put(pm3, "hip_width",
                        _calculate_distance(key_points["left_hip"],
                                            key_points["right_hip"]))
               ELSE pm3
        total_height_px == _calculate_total_body_height(key_points)
        real_measurements ==
            IF Truthy(height) /\ "torso_length" \in DOMAIN pixel_measurements
            THEN IF total_height_px > 0
                 THEN [m \in DOMAIN pixel_measurements |->
                          Scaled(pixel_measurements[m],
                                 ScaleFactor(Val(height), total_height_px))]
                 ELSE EmptyDict
            ELSE EmptyDict
        failed(e) == Raise(Wrapped("Measurement calculation", e))
    IN  IF ~c1.ok THEN failed(c1.err)
        ELSE IF ~c2.ok THEN failed(c2.err)
        ELSE IF ~c3.ok THEN failed(c3.err)
        ELSE IF ~c4.ok THEN failed(c4.err)
        ELSE Ok([pixel_measurements |-> pixel_measurements,
                 real_measurements |-> real_measurements,
                 scale_factor |-> Get(real_measurements, "scale_factor", UnitFactor),
                 estimated_height |->
                     IF Truthy(height) THEN Val(height)
                     ELSE _estimate_height(pixel_measurements)])

(***************************************************************************)
(* Shape Parameter Normalizer                                              *)
(***************************************************************************)
\* the floats 0.7, 0.8, 0.9, 1.0, 1.2, 1.3 and 0.1 as scale factors
Scale07 == 5040
Scale08 == 5760
Scale09 == 6480
Scale10 == 7200
Scale12 == 8640
Scale13 == 9360
Scale01 == 720

\* body_proportions / the literals 0.18 and 0.16, in pixel units
AvgShoulderWidth == 180
AvgHipWidth == 160

\* px / avg as a scale factor
PxRatio(px, avg) == (px * ScaleDen) \div avg

_calculate_shoulder_scale(m) ==
    LET pixel_measurements == Get(m, "pixel_measurements", EmptyDict)
    IN  IF "shoulder_width" \in DOMAIN pixel_measurements
        THEN Ok(Min(Max(PxRatio(pixel_measurements["shoulder_width"],
                                AvgShoulderWidth), Scale07), Scale13))
        ELSE Ok(Scale10)

_calculate_hip_scale(m) ==
    LET pixel_measurements == Get(m, "pixel_measurements", EmptyDict)
    IN  IF "hip_width" \in DOMAIN pixel_measurements
        THEN Ok(Min(Max(PxRatio(pixel_measurements["hip_width"],
                                AvgHipWidth), Scale07), Scale13))
        ELSE Ok(Scale10)

\* (shoulder_scale + hip_scale) / 2 * 0.8
\* variant: (shoulder + hip) / 2 * 0.7
_calculate_waist_scale_narrow(m) ==
    Ok(((_calculate_shoulder_scale(m).val + _calculate_hip_scale(m).val) * 35) \div 100)

_calculate_waist_scale(m) ==
    Ok(((_calculate_shoulder_scale(m).val + _calculate_hip_scale(m).val) * 4) \div 10)

ZeroDivisionError == [type |-> "ZeroDivisionError", arg |-> "float division by zero"]

\* (leg / torso) / 1.3 as a scale factor
LegRatio(leg, torso) == (leg * ScaleDen * 10) \div (torso * 13)

_calculate_leg_scale(m) ==
    LET pixel_measurements == Get(m, "pixel_measurements", EmptyDict)
    IN  IF "leg_length" \in DOMAIN pixel_measurements
           /\ "torso_length" \in DOMAIN pixel_measurements
        THEN IF pixel_measurements["torso_length"] = 0
             THEN Raise(ZeroDivisionError)
             ELSE Ok(Min(Max(LegRatio(pixel_measurements["leg_length"],
                                      pixel_measurements["torso_length"]),
                             Scale08), Scale12))
        ELSE Ok(Scale10)

\* estimated_height / 170 as a scale factor
HeightScale(estimated_height) == (estimated_height * ScaleDen) \div DefaultHeight

_extract_pose_parameters(landmarks) ==
    [spine_curve |-> 0, shoulder_rotation |-> 0, hip_rotation |-> 0,
     arm_position |-> "neutral", leg_stance |-> "standing"]

(***************************************************************************)
(* Body Type Classifier and Fit Recommendation Table                       *)
(***************************************************************************)
\* variant: the hourglass and rectangle rules tested before the width rules
_classify_body_type_waist_first(shape_params) ==
    LET shoulder_scale == Get(shape_params, "shoulder_width_scale", Scale10)
        waist_scale == Get(shape_params, "waist_width_scale", Scale10)
        hip_scale == Get(shape_params, "hip_width_scale", Scale10)
    IN  IF waist_scale * 10 < Min(shoulder_scale, hip_scale) * 8 THEN "hourglass"
        ELSE IF Abs(shoulder_scale - hip_scale) < Scale01 /\ waist_scale > Scale09
             THEN "rectangle"
        ELSE IF shoulder_scale * 10 > hip_scale * 11 THEN "inverted_triangle"
        ELSE IF hip_scale * 10 > shoulder_scale * 11 THEN "pear"
        ELSE "oval"

_classify_body_type(shape_params) ==
    LET shoulder_scale == Get(shape_params, "shoulder_width_scale", Scale10)
        waist_scale == Get(shape_params, "waist_width_scale", Scale10)
        hip_scale == Get(shape_params, "hip_width_scale", Scale10)
    IN  IF shoulder_scale * 10 > hip_scale * 11 THEN "inverted_triangle"
        ELSE IF hip_scale * 10 > shoulder_scale * 11 THEN "pear"
        ELSE IF waist_scale * 10 < Min(shoulder_scale, hip_scale) * 8
             THEN "hourglass"
        ELSE IF Abs(shoulder_scale - hip_scale) < Scale01 /\ waist_scale > Scale09
             THEN "rectangle"
        ELSE "oval"

recommendations ==
    [inverted_triangle |->
        [tops |-> <<"fitted", "v-neck", "scoop_neck">>,
         bottoms |-> <<"wide_leg", "flare", "bootcut">>,
         avoid |-> <<"shoulder_pads", "horizontal_stripes_top">>],
     pear |->
        [tops |-> <<"boat_neck", "off_shoulder", "embellished">>,
         bottoms |-> <<"straight_leg", "dark_colors", "high_waisted">>,
         avoid |-> <<"tight_tops", "wide_hips_emphasis">>],
     hourglass |->
        [tops |-> <<"fitted", "wrap_style", "belted">>,
         bottoms |-> <<"high_waisted", "fitted", "pencil_skirts">>,
         avoid |-> <<"baggy_clothes", "shapeless_silhouettes">>],
     rectangle |->
        [tops |-> <<"peplum", "ruffles", "layered">>,
         bottoms |-> <<"wide_leg", "flare", "printed">>,
         avoid |-> <<"straight_lines", "boxy_cuts">>],
     oval |->
        [tops |-> <<"empire_waist", "v_neck", "flowing">>,
         bottoms |-> <<"straight_leg", "bootcut", "dark_colors">>,
         avoid |-> <<"tight_fitting", "horizontal_stripes">>]]

DefaultRecommendation ==
    [tops |-> <<"classic_fit">>, bottoms |-> <<"regular_fit">>, avoid |-> <<>>]

\* variant: the table row of a classification that tests the waist rules first
_generate_fit_recommendations_waist_first(shape_params) ==
    Get(recommendations, _classify_body_type_waist_first(shape_params),
        DefaultRecommendation)

_generate_fit_recommendations(shape_params) ==
    Get(recommendations, _classify_body_type(shape_params), DefaultRecommendation)

generate_3d_model_params(ld, m) ==
    LET key_points == Subscript(ld, "key_points")
        landmarks == Subscript(ld, "landmarks")
        leg == _calculate_leg_scale(m)
        shape_params ==
            [height_scale |-> HeightScale(Get(m, "estimated_height", DefaultHeight)),
             shoulder_width_scale |-> _calculate_shoulder_scale(m).val,
             waist_width_scale |-> _calculate_waist_scale(m).val,
             hip_width_scale |-> _calculate_hip_scale(m).val,
             leg_length_scale |-> leg.val]
        failed(e) == Raise(Wrapped("3D model parameter generation", e))
    IN  IF ~key_points.ok THEN failed(key_points.err)
        ELSE IF ~leg.ok THEN failed(leg.err)
        ELSE IF ~landmarks.ok THEN failed(landmarks.err)
        ELSE Ok([shape_parameters |-> shape_params,
                 pose_parameters |-> _extract_pose_parameters(landmarks.val),
                 body_type |-> _classify_body_type(shape_params),
                 fit_recommendations |-> _generate_fit_recommendations(shape_params)])

(***************************************************************************)
(* Mesh Synthesizer                                                        *)
(***************************************************************************)
\* 0.1 * cos(i * pi / 4) and 0.1 * sin(i * pi / 4), i = 0 .. 7, as mesh
\* coordinates (rounded to the unit)
HeadRingX == <<72000, 50912, 0, -50912, -72000, -50912, 0, 50912>>
HeadRingZ == <<0, 50912, 72000, 50912, 0, -50912, -72000, -50912>>

\* the literal 0.1 as a mesh coordinate
Mesh01 == 72000

\* Head (simplified as sphere points): for i in range(8)
HeadVertices(height_scale) ==
    [i \in 1..8 |-> <<HeadRingX[i], 170 * height_scale, HeadRingZ[i]>>]

\* one torso ring: two vertices at z = 0, two at z = -0.1
RingVertices(width, y) ==
    << <<-width, y, 0>>, <<width, y, 0>>,
       <<-width, y, -Mesh01>>, <<width, y, -Mesh01>> >>

\* variant: the knee and ankle of the left leg only
LegVertices_one_leg(height_scale) ==
    << <<-Mesh01, 40 * height_scale, 0>>, <<-Mesh01, 40 * height_scale, -Mesh01>>,
       <<-Mesh01, 0, 0>>, <<-Mesh01, 0, -Mesh01>> >>

\* Legs (simplified): for leg_x in [-0.1, 0.1]: for y in [0.4, 0.0]
LegVertices(height_scale) ==
    LET part(leg_x, y) ==
            << <<leg_x, y * height_scale, 0>>,
               <<leg_x, y * height_scale, -Mesh01>> >>
    IN  part(-Mesh01, 40) \o part(-Mesh01, 0)
        \o part(Mesh01, 40) \o part(Mesh01, 0)

\* variant: range(0, n, 3)
FaceStarts_to_end(n) == {i \in 0..(n - 1) : i % 3 = 0}

\* the start values of range(0, n - 2, 3)
FaceStarts(n) == {i \in 0..(n - 3) : i % 3 = 0}

\* variant: a face at every index, faces.append([i, i + 1, i + 2]) with step 1
Faces_sliding(n) ==
    [k \in 1..(n - 2) |-> <<k - 1, k, k + 1>>]

\* for i in range(0, len(vertices) - 2, 3): faces.append([i, i + 1, i + 2])
Faces(n) ==
    [k \in 1..Cardinality(FaceStarts(n)) |->
        <<3 * (k - 1), 3 * (k - 1) + 1, 3 * (k - 1) + 2>>]

_generate_simplified_body_mesh(mp) ==
    LET shape_params == mp["shape_parameters"]
        height_scale == Get(shape_params, "height_scale", Scale10)
        shoulder_scale == Get(shape_params, "shoulder_width_scale", Scale10)
        waist_scale == Get(shape_params, "waist_width_scale", Scale10)
        hip_scale == Get(shape_params, "hip_width_scale", Scale10)
        vertices ==
            HeadVertices(height_scale)
            \o RingVertices(20 * shoulder_scale, 150 * height_scale)
            \o RingVertices(15 * waist_scale, 100 * height_scale)
            \o RingVertices(18 * hip_scale, 80 * height_scale)
            \o LegVertices(height_scale)
    IN  [vertices |-> vertices, faces |-> Faces(Len(vertices))]

create_body_mesh(mp) ==
    IF ~Subscript(mp, "shape_parameters").ok
    THEN Raise(Wrapped("Body mesh creation", Subscript(mp, "shape_parameters").err))
    ELSE LET mesh == _generate_simplified_body_mesh(mp)
         IN  Ok([vertices |-> mesh.vertices,
                 faces |-> mesh.faces,
                 vertex_count |-> Len(mesh.vertices),
                 face_count |-> Len(mesh.faces),
                 format |-> "obj_compatible"])

(***************************************************************************)
(* Inputs: what the pose-estimation collaborator and the callers supply    *)
(***************************************************************************)
NumLandmarks == 33

MeasuredNames ==
    {"nose", "left_shoulder", "right_shoulder", "left_hip", "right_hip",
     "left_ankle", "right_ankle"}

LimbNames == DOMAIN mp_indices \ MeasuredNames

\* a posture: shoulder and hip half-widths and a vertical stretch
Poses ==
    [sw : {k * 50 : k \in 0..MaxWidthSteps},
     hw : {k * 50 : k \in 0..MaxWidthSteps},
     vs : 0..MaxStretch]

\* the posture of the reference scenario: shoulders (-+0.2, 1.5, 0),
\* hips (-+0.15, 0.8, 0)
ReferencePose == [sw |-> 200, hw |-> 150, vs |-> 1]

PosePoint(pose, name) ==
    CASE name = "nose" -> Point(40, 1700 * pose.vs, -60)
      [] name = "left_shoulder" -> Point(-pose.sw, 1500 * pose.vs, 0)
      [] name = "right_shoulder" -> Point(pose.sw, 1500 * pose.vs, 0)
      [] name = "left_elbow" -> Point(-300, 1200 * pose.vs, 20)
      [] name = "right_elbow" -> Point(300, 1200 * pose.vs, 20)
      [] name = "left_wrist" -> Point(-320, 900 * pose.vs, 40)
      [] name = "right_wrist" -> Point(320, 900 * pose.vs, 40)
      [] name = "left_hip" -> Point(-pose.hw, 800 * pose.vs, 0)
      [] name = "right_hip" -> Point(pose.hw, 800 * pose.vs, 0)
      [] name = "left_knee" -> Point(-120, 400 * pose.vs, 0)
      [] name = "right_knee" -> Point(120, 400 * pose.vs, 0)
      [] name = "left_ankle" -> Point(-100, 0, 0)
      [] name = "right_ankle" -> Point(100, 0, 0)
      [] OTHER -> Point(0, 0, 0)

\* the name of landmark index i ("" for the landmarks the pipeline ignores)
IndexName(i) ==
    IF \E name \in DOMAIN mp_indices : mp_indices[name] = i
    THEN CHOOSE name \in DOMAIN mp_indices : mp_indices[name] = i
    ELSE ""

\* the landmark list of a posture: the names in `visible` have visibility
\* `high`, the other named landmarks `low`; n landmarks in all
Skeleton(pose, visible, low, high, n) ==
    [i \in 1..n |->
        LET name == IndexName(i - 1)
            p == PosePoint(pose, name)
        IN  [x |-> p.x, y |-> p.y, z |-> p.z,
             visibility |-> IF name = "" \/ name \in visible THEN high ELSE low]]

\* every subset of the measured points visible, on the reference posture
VisibilityFamily ==
    {Skeleton(ReferencePose, visible \cup limbs, low, high, n) :
        visible \in SUBSET MeasuredNames, limbs \in {{}, LimbNames},
        low \in {0, VisibilityThreshold}, high \in {VisibilityThreshold + 1, VisDen},
        n \in {24, NumLandmarks}}

\* every posture, fully visible
PoseFamily ==
    {Skeleton(pose, DOMAIN mp_indices, 0, VisDen, NumLandmarks) : pose \in Poses}

Skeletons == VisibilityFamily \cup PoseFamily

\* Optional[float] heights a caller supplies, in cm
UserHeights == {None, Some(0), Some(170), Some(180)}

MetricNames == {"shoulder_width", "torso_length", "leg_length", "hip_width"}

\* pixel values on a grid of 0.09, and one huge value (20.0)
PxValues == {k * 90 : k \in 0..MaxPxSteps} \cup {20000}

\* every Measurements value over the pixel grid: any subset of the metrics
ArbitraryPixelMeasurements ==
    UNION {[present -> PxValues] : present \in SUBSET MetricNames}

ArbitraryMeasurements ==
    {[pixel_measurements |-> pm, real_measurements |-> EmptyDict,
      scale_factor |-> UnitFactor, estimated_height |-> eh] :
        pm \in ArbitraryPixelMeasurements, eh \in {DefaultHeight, 180}}

\* scale factors 0.4, 0.45, ... (2880 = 0.4 and 360 = 0.05 in 1/ScaleDen)
ScaleValues == {2880 + k * 360 : k \in 0..MaxScaleSteps}

\* every ShapeParameters value over the scale grid
ArbitraryShapes ==
    [height_scale : {HeightScale(DefaultHeight), HeightScale(180)},
     shoulder_width_scale : ScaleValues,
     waist_width_scale : ScaleValues,
     hip_width_scale : ScaleValues,
     leg_length_scale : {Scale10}]

\* landmarks_data of a run that starts from given measurements
NoLandmarks == [landmarks |-> <<>>, key_points |-> EmptyDict, total_landmarks |-> 0]

(***************************************************************************)
(* One pipeline run, step by step                                          *)
(***************************************************************************)
ApiInit ==
    /\ files = EmptyDict
    /\ next_uuid = 0
    /\ response = [op |-> "none", status_code |-> 0, content |-> EmptyDict]
    /\ service_calls = <<>>
    /\ clock = 0

\* no fit analysis requested, no concurrent runs
TryonIdle ==
    /\ clothing = EmptyDict
    /\ sessions = EmptyDict
    /\ fit_call = NotRun
    /\ fit_result = NotRun
    /\ runs = <<>>

\* a run starts from a skeleton, from given measurements or from given
\* shape parameters
InitPipeline ==
    /\ ApiInit
    /\ TryonIdle
    /\ error = NotRun
    /\ mesh_data = NotRun
    /\ \/ /\ stage = "landmarks"
          /\ landmarks_data \in {[landmarks |-> sk] : sk \in Skeletons}
          /\ user_height \in UserHeights
          /\ measurements = NotRun
          /\ model_params = NotRun
       \/ /\ stage = "measured"
          /\ landmarks_data = NoLandmarks
          /\ user_height = None
          /\ measurements \in ArbitraryMeasurements
          /\ model_params = NotRun
       \/ /\ stage = "shape"
          /\ landmarks_data = NoLandmarks
          /\ user_height = None
          /\ measurements = NotRun
          /\ model_params \in {[shape_parameters |-> sp] : sp \in ArbitraryShapes}

\* extract_pose_landmarks, after pose.process returned a skeleton
ExtractPoseLandmarks ==
    /\ stage = "landmarks"
    /\ landmarks_data' =
          [landmarks |-> landmarks_data.landmarks,
           key_points |-> _extract_key_body_points(landmarks_data.landmarks),
           total_landmarks |-> Len(landmarks_data.landmarks)]
    /\ stage' = "key_points"
    /\ UNCHANGED <<user_height, measurements, model_params, mesh_data, error>>
    /\ UNCHANGED <<apiVars, runs>>

CalculateBodyMeasurements ==
    /\ stage = "key_points"
    /\ LET r == calculate_body_measurements(landmarks_data, user_height)
       IN  \/ /\ r.ok
              /\ measurements' = r.val
              /\ stage' = "measured"
              /\ UNCHANGED error
           \/ /\ ~r.ok
              /\ error' = r.err
              /\ stage' = "failed"
              /\ UNCHANGED measurements
    /\ UNCHANGED <<landmarks_data, user_height, model_params, mesh_data>>
    /\ UNCHANGED <<apiVars, runs>>

Generate3dModelParams ==
    /\ stage = "measured"
    /\ LET r == generate_3d_model_params(landmarks_data, measurements)
       IN  \/ /\ r.ok
              /\ model_params' = r.val
              /\ stage' = "shaped"
              /\ UNCHANGED error
           \/ /\ ~r.ok
              /\ error' = r.err
              /\ stage' = "failed"
              /\ UNCHANGED model_params
    /\ UNCHANGED <<landmarks_data, user_height, measurements, mesh_data>>
    /\ UNCHANGED <<apiVars, runs>>

\* the classification half of generate_3d_model_params, on given shape
\* parameters
ClassifyBodyType ==
    /\ stage = "shape"
    /\ model_params' =
          [shape_parameters |-> model_params.shape_parameters,
           pose_parameters |-> _extract_pose_parameters(landmarks_data.landmarks),
           body_type |-> _classify_body_type(model_params.shape_parameters),
           fit_recommendations |->
               _generate_fit_recommendations(model_params.shape_parameters)]
    /\ stage' = "shaped"
    /\ UNCHANGED <<landmarks_data, user_height, measurements, mesh_data, error>>
    /\ UNCHANGED <<apiVars, runs>>

CreateBodyMesh ==
    /\ stage = "shaped"
    /\ LET r == create_body_mesh(model_params)
       IN  \/ /\ r.ok
              /\ mesh_data' = r.val
              /\ stage' = "meshed"
              /\ UNCHANGED error
           \/ /\ ~r.ok
              /\ error' = r.err
              /\ stage' = "failed"
              /\ UNCHANGED mesh_data
    /\ UNCHANGED <<landmarks_data, user_height, measurements, model_params>>
    /\ UNCHANGED <<apiVars, runs>>

NextPipeline ==
    \/ ExtractPoseLandmarks
    \/ CalculateBodyMeasurements
    \/ Generate3dModelParams
    \/ ClassifyBodyType
    \/ CreateBodyMesh

SpecPipeline == InitPipeline /\ [][NextPipeline]_vars

(***************************************************************************)
(* create_body_model and the body-model API                                *)
(***************************************************************************)
\* an uploaded image, by what the collaborators make of it: whether
\* Image.open decodes it, and the skeleton pose.process finds in it
Image(decodable, pose) == [decodable |-> decodable, pose |-> pose]

\* pose.process + _extract_key_body_points; None when no pose is detected
extract_pose_landmarks(image) ==
    IF image.pose = None THEN None
    ELSE Some([landmarks |-> Val(image.pose),
               key_points |-> _extract_key_body_points(Val(image.pose)),
               total_landmarks |-> Len(Val(image.pose))])

\* variant: no `if not landmarks` check; subscripting None raises TypeError
\* inside calculate_body_measurements
create_body_model_unchecked(image, height) ==
    LET failed(e, calls) ==
            [ok |-> FALSE, err |-> Wrapped("Body modeling", e), calls |-> calls]
        landmarks == extract_pose_landmarks(image)
        m == IF landmarks = None
             THEN Raise(Wrapped("Measurement calculation",
                                [type |-> "TypeError", arg |-> "NoneType"]))
             ELSE calculate_body_measurements(Val(landmarks), height)
        mp == generate_3d_model_params(Val(landmarks), m.val)
        mesh == create_body_mesh(mp.val)
        c2 == <<"extract_pose_landmarks", "calculate_body_measurements">>
        c3 == c2 \o <<"generate_3d_model_params">>
        c4 == c3 \o <<"create_body_mesh">>
    IN  IF ~image.decodable
        THEN failed([type |-> "UnidentifiedImageError", arg |-> "image"], <<>>)
        ELSE IF ~m.ok THEN failed(m.err, c2)
        ELSE IF ~mp.ok THEN failed(mp.err, c3)
        ELSE IF ~mesh.ok THEN failed(mesh.err, c4)
        ELSE [ok |-> TRUE,
              val |-> [landmarks |-> Val(landmarks),
                       measurements |-> m.val,
                       model_params |-> mp.val,
                       mesh_data |-> mesh.val,
                       status |-> "success"],
              calls |-> c4]

\* the result carries `calls`, the service methods that ran
create_body_model(image, height) ==
    LET failed(e, calls) ==
            [ok |-> FALSE, err |-> Wrapped("Body modeling", e), calls |-> calls]
        landmarks == extract_pose_landmarks(image)
        m == calculate_body_measurements(Val(landmarks), height)
        mp == generate_3d_model_params(Val(landmarks), m.val)
        mesh == create_body_mesh(mp.val)
        c1 == <<"extract_pose_landmarks">>
        c2 == c1 \o <<"calculate_body_measurements">>
        c3 == c2 \o <<"generate_3d_model_params">>
        c4 == c3 \o <<"create_body_mesh">>
    IN  IF ~image.decodable
        THEN failed([type |-> "UnidentifiedImageError", arg |-> "image"], <<>>)
        ELSE IF landmarks = None
        THEN failed([type |-> "Exception",
                     arg |-> "Could not detect pose landmarks"], c1)
        ELSE IF ~m.ok THEN failed(m.err, c2)
        ELSE IF ~mp.ok THEN failed(mp.err, c3)
        ELSE IF ~mesh.ok THEN failed(mesh.err, c4)
        ELSE [ok |-> TRUE,
              val |-> [landmarks |-> Val(landmarks),
                       measurements |-> m.val,
                       model_params |-> mp.val,
                       mesh_data |-> mesh.val,
                       status |-> "success"],
              calls |-> c4]

\* uploads/body_models/{model_id}_model.json, {model_id}_body_original.<ext>
ModelPath(model_id) == <<model_id, "_model.json">>
OriginalPath(model_id) == <<model_id, "_body_original">>

ModelIds == 1..MaxUploads

ApiPoses ==
    {pose \in Poses :
        <<pose.sw, pose.hw>> \in {<<200, 150>>, <<50, 100>>, <<100, 50>>, <<50, 50>>}}

ApiSkeletons ==
    {Skeleton(pose, DOMAIN mp_indices, 0, VisDen, NumLandmarks) : pose \in ApiPoses}
    \cup {Skeleton(ReferencePose, DOMAIN mp_indices \ {hidden}, 0, VisDen, NumLandmarks) :
            hidden \in {"nose", "left_hip"}}

ApiImages ==
    {Image(FALSE, None), Image(TRUE, None)}
    \cup {Image(TRUE, Some(sk)) : sk \in ApiSkeletons}

ApiHeights == {None, Some(170)}

Response(op, status_code, content) ==
    [op |-> op, status_code |-> status_code, content |-> content]

Init ==
    /\ ApiInit
    /\ TryonIdle
    /\ stage = "idle"
    /\ landmarks_data = NoLandmarks
    /\ user_height = None
    /\ measurements = NotRun
    /\ model_params = NotRun
    /\ mesh_data = NotRun
    /\ error = NotRun

\* POST /upload
UploadBodyImage(is_image, image, height) ==
    /\ next_uuid < MaxUploads
    /\ IF ~is_image
       THEN \* the HTTPException(400) is caught by `except Exception`
            /\ response' = Response("upload", 500,
                   [detail |-> "Body model creation failed: File must be an image"])
            /\ service_calls' = <<>>
            /\ UNCHANGED <<files, next_uuid>>
       ELSE LET model_id == next_uuid + 1
                saved == Put(files, OriginalPath(model_id), image)
                r == create_body_model(image, height)
            IN  /\ next_uuid' = model_id
                /\ service_calls' = <<"create_body_model">> \o r.calls
                /\ IF r.ok
                   THEN /\ files' = Put(saved, ModelPath(model_id), r.val)
                        /\ response' = Response("upload", 200,
                               [model_id |-> model_id,
                                user_data |-> [height |-> height],
                                body_model |-> r.val,
                                status |-> "success"])
                   ELSE /\ files' = saved
                        /\ response' = Response("upload", 200,
                               [model_id |-> model_id,
                                modeling_error |-> r.err,
                                status |-> "failed"])
    /\ UNCHANGED <<clock, tryonVars>>
    /\ UNCHANGED pipeVars

\* GET /{model_id}
GetBodyModel(model_id) ==
    /\ IF ModelPath(model_id) \notin DOMAIN files
       THEN response' = Response("get", 404,
                [model_id |-> model_id, detail |-> "Body model not found"])
       ELSE response' = Response("get", 200,
                [model_id |-> model_id, body_model |-> files[ModelPath(model_id)]])
    /\ service_calls' = <<>>
    /\ UNCHANGED <<files, next_uuid, clock, tryonVars>>
    /\ UNCHANGED pipeVars

Next ==
    \/ \E is_image \in BOOLEAN, image \in ApiImages, height \in ApiHeights :
          UploadBodyImage(is_image, image, height)
    \/ \E model_id \in ModelIds : GetBodyModel(model_id)

Spec == Init /\ [][Next]_vars

(***************************************************************************)
(* Measurement updates of stored body models                               *)
(***************************************************************************)
MaxUpdates == 2         \* datetime.now() values the update handler draws
MaxStored == 1          \* body models uploaded before the updates

\* variant: `if value is not None: measurements[key] = value`
PutIfTruthy_not_none(d, key, value) ==
    IF value # None THEN Put(d, key, Val(value)) ELSE d

\* `if value: measurements[key] = value`
PutIfTruthy(d, key, value) == IF Truthy(value) THEN Put(d, key, Val(value)) ELSE d

\* the measurements dict after the five `if <field>:` assignments
UpdatedMeasurements(model_data, height, weight, chest, waist, hips) ==
    PutIfTruthy(
        PutIfTruthy(
            PutIfTruthy(
                PutIfTruthy(
                    PutIfTruthy(Get(model_data, "measurements", EmptyDict),
                                "estimated_height", height),
                    "weight", weight),
                "chest", chest),
            "waist", waist),
        "hips", hips)

\* variant: the parameters are regenerated, the mesh is left as stored
update_model_data_stale_mesh(model_data, height, weight, chest, waist, hips, now) ==
    LET m == UpdatedMeasurements(model_data, height, weight, chest, waist, hips)
        updated_params == generate_3d_model_params(model_data["landmarks"], m)
    IN  IF ~updated_params.ok THEN updated_params
        ELSE Ok(Put(Put(Put(model_data, "model_params", updated_params.val),
                        "measurements", m),
                    "updated_at", now))

\* variant: the parameters are regenerated from the measurements as stored,
\* before the supplied fields are applied
update_model_data_old_measurements(model_data, height, weight, chest, waist, hips, now) ==
    LET m == UpdatedMeasurements(model_data, height, weight, chest, waist, hips)
        updated_params ==
            generate_3d_model_params(model_data["landmarks"],
                                     Get(model_data, "measurements", EmptyDict))
        updated_mesh == create_body_mesh(updated_params.val)
    IN  IF ~updated_params.ok THEN updated_params
        ELSE IF ~updated_mesh.ok THEN updated_mesh
        ELSE Ok(Put(Put(Put(Put(model_data, "model_params", updated_params.val),
                            "mesh_data", updated_mesh.val),
                        "measurements", m),
                    "updated_at", now))

\* the body of update_body_measurements between reading and writing the
\* model file: the new model_data, or the exception a service call raised
update_model_data(model_data, height, weight, chest, waist, hips, now) ==
    LET m == UpdatedMeasurements(model_data, height, weight, chest, waist, hips)
        updated_params == generate_3d_model_params(model_data["landmarks"], m)
        updated_mesh == create_body_mesh(updated_params.val)
        stamped(d) == Put(Put(d, "measurements", m), "updated_at", now)
    IN  IF "landmarks" \notin DOMAIN model_data THEN Ok(stamped(model_data))
        ELSE IF ~updated_params.ok THEN updated_params
        ELSE IF ~updated_mesh.ok THEN updated_mesh
        ELSE Ok(stamped(Put(Put(model_data, "model_params", updated_params.val),
                            "mesh_data", updated_mesh.val)))

\* PUT /{model_id}/measurements
UpdateBodyMeasurements(model_id, height, weight, chest, waist, hips) ==
    /\ clock < MaxUpdates
    /\ IF ModelPath(model_id) \notin DOMAIN files
       THEN /\ response' = Response("update", 404,
                   [model_id |-> model_id, detail |-> "Body model not found"])
            /\ service_calls' = <<>>
            /\ UNCHANGED <<files, clock>>
       ELSE LET model_data == files[ModelPath(model_id)]
                r == update_model_data(model_data, height, weight, chest,
                                       waist, hips, clock + 1)
            IN  IF r.ok
                THEN /\ files' = Put(files, ModelPath(model_id), r.val)
                     /\ clock' = clock + 1
                     /\ service_calls' =
                           IF "landmarks" \in DOMAIN model_data
                           THEN <<"generate_3d_model_params", "create_body_mesh">>
                           ELSE <<>>
                     /\ response' = Response("update", 200,
                            [model_id |-> model_id,
                             updated_measurements |-> r.val["measurements"],
                             body_model |-> r.val,
                             updated_at |-> clock + 1])
                ELSE /\ response' = Response("update", 500,
                            [model_id |-> model_id,
                             detail |-> Wrapped("Failed to update measurements",
                                                r.err)])
                     /\ service_calls' = <<"generate_3d_model_params">>
                     /\ UNCHANGED <<files, clock>>
    /\ UNCHANGED <<next_uuid, tryonVars>>
    /\ UNCHANGED pipeVars

\* the photographs of the update scenarios: no pose, the reference posture
\* and a narrow-shouldered posture
StoreImages ==
    {Image(TRUE, None)}
    \cup {Image(TRUE, Some(Skeleton(pose, DOMAIN mp_indices, 0, VisDen, NumLandmarks))) :
            pose \in {ReferencePose, [sw |-> 50, hw |-> 100, vs |-> 1]}}

\* Optional[float] form fields of an update
UpdateHeights == {None, Some(0), Some(180)}
UpdateWeights == {None, Some(70)}
UpdateGirths == {<<None, None, None>>, <<Some(90), None, Some(95)>>}

\* creations and measurement updates, one request at a time
NextStore ==
    \/ \E image \in StoreImages, height \in ApiHeights :
          next_uuid < MaxStored /\ UploadBodyImage(TRUE, image, height)
    \/ \E model_id \in 1..(MaxStored + 1), height \in UpdateHeights,
          weight \in UpdateWeights, girths \in UpdateGirths :
          UpdateBodyMeasurements(model_id, height, weight,
                                 girths[1], girths[2], girths[3])

SpecStore == Init /\ [][NextStore]_vars

(***************************************************************************)
(* Fit analysis of the try-on API (backend/api/tryons.py)                  *)
(* Fit scores are in 1/ScoreDen (0.1); real measurements, as in the        *)
(* Measurement Estimator, in 1/CoordDen cm.                                *)
(***************************************************************************)
ScoreDen == 10

\* the set of the elements of a list
Range(seq) == {seq[i] : i \in 1..Len(seq)}

\* `item in text` on two str values: substring containment
Contains(item, text) ==
    \E i \in 1..(Len(text) - Len(item) + 1) :
        SubSeq(text, i, i + Len(item) - 1) = item

\* variant: a bonus for each list that recommends the type, no clamp
_calculate_fit_score_unclamped(body_type, clothing_type, fit_recommendations) ==
    LET recommended_tops == Get(fit_recommendations, "tops", <<>>)
        recommended_bottoms == Get(fit_recommendations, "bottoms", <<>>)
        avoid_items == Get(fit_recommendations, "avoid", <<>>)
        bonus(list) == IF clothing_type \in Range(list) THEN 3 ELSE 0
        penalty == IF \E avoid_item \in Range(avoid_items) :
                          Contains(avoid_item, clothing_type)
                   THEN 2 ELSE 0
    IN  5 + bonus(recommended_tops) + bonus(recommended_bottoms) - penalty

\* variant: 0.2 subtracted for each avoid item found in the type
_calculate_fit_score_per_match(body_type, clothing_type, fit_recommendations) ==
    LET recommended_tops == Get(fit_recommendations, "tops", <<>>)
        recommended_bottoms == Get(fit_recommendations, "bottoms", <<>>)
        avoid_items == Get(fit_recommendations, "avoid", <<>>)
        recommended ==
            IF clothing_type \in Range(recommended_tops)
               \/ clothing_type \in Range(recommended_bottoms)
            THEN 8 ELSE 5
        matches == {i \in 1..Len(avoid_items) :
                       Contains(avoid_items[i], clothing_type)}
    IN  Max(0, Min(ScoreDen, recommended - 2 * Cardinality(matches)))

_calculate_fit_score(body_type, clothing_type, fit_recommendations) ==
    LET recommended_tops == Get(fit_recommendations, "tops", <<>>)
        recommended_bottoms == Get(fit_recommendations, "bottoms", <<>>)
        avoid_items == Get(fit_recommendations, "avoid", <<>>)
        base == 5
        recommended ==
            IF clothing_type \in Range(recommended_tops)
               \/ clothing_type \in Range(recommended_bottoms)
            THEN base + 3 ELSE base
        score ==
            IF \E avoid_item \in Range(avoid_items) :
                   Contains(avoid_item, clothing_type)
            THEN recommended - 2 ELSE recommended
    IN  Max(0, Min(ScoreDen, score))

body_type_recommendations ==
    [pear |-> <<"Emphasize upper body", "Choose fitted tops", "Avoid tight bottoms">>,
     inverted_triangle |-> <<"Balance with wider bottoms", "Avoid shoulder emphasis">>,
     hourglass |-> <<"Emphasize waist", "Choose fitted silhouettes">>,
     rectangle |-> <<"Create curves", "Add volume and texture">>,
     oval |-> <<"Choose empire waists", "Avoid tight fitting clothes">>]

_get_fit_recommendations(body_type, clothing_type) ==
    Get(body_type_recommendations, body_type, <<"Choose classic fit">>)

\* variant: each bucket includes its upper limit
_suggest_size_inclusive(body_model, clothing_analysis) ==
    LET real == Get(Get(body_model, "measurements", EmptyDict),
                    "real_measurements", EmptyDict)
        shoulder_width == Get(real, "shoulder_width", 40 * CoordDen)
    IN  IF shoulder_width <= 35 * CoordDen THEN "XS"
        ELSE IF shoulder_width <= 40 * CoordDen THEN "S"
        ELSE IF shoulder_width <= 45 * CoordDen THEN "M"
        ELSE IF shoulder_width <= 50 * CoordDen THEN "L"
        ELSE "XL"

_suggest_size(body_model, clothing_analysis) ==
    LET real == Get(Get(body_model, "measurements", EmptyDict),
                    "real_measurements", EmptyDict)
        shoulder_width == Get(real, "shoulder_width", 40 * CoordDen)
    IN  IF shoulder_width < 35 * CoordDen THEN "XS"
        ELSE IF shoulder_width < 40 * CoordDen THEN "S"
        ELSE IF shoulder_width < 45 * CoordDen THEN "M"
        ELSE IF shoulder_width < 50 * CoordDen THEN "L"
        ELSE "XL"

\* uploads/clothing/{clothing_id}_analysis.json
AnalysisPath(clothing_id) == <<clothing_id, "_analysis.json">>

\* the content of a file: JSON text that parses to `value`, or bytes that
\* open() or json.loads() rejects
JsonFile(value) == [readable |-> TRUE, value |-> value]
UnreadableFile == [readable |-> FALSE]

\* Default analysis if file doesn't exist
DefaultAnalysis ==
    [clothing_type |-> [type |-> "unknown"],
     colors |-> [dominant_color |-> "unknown"],
     material |-> [material |-> "cotton"]]

\* variant: the file is opened and parsed without the exists() test and
\* without the try / except
LoadAnalysis_unguarded(dir, clothing_id) ==
    IF AnalysisPath(clothing_id) \notin DOMAIN dir
    THEN Raise([type |-> "FileNotFoundError", arg |-> AnalysisPath(clothing_id)])
    ELSE IF ~dir[AnalysisPath(clothing_id)].readable
    THEN Raise([type |-> "JSONDecodeError", arg |-> AnalysisPath(clothing_id)])
    ELSE Ok(dir[AnalysisPath(clothing_id)].value)

\* the clothing_analysis of one garment: the file's value when the file
\* exists and opens and parses, the default otherwise
LoadAnalysis(dir, clothing_id) ==
    IF AnalysisPath(clothing_id) \in DOMAIN dir
       /\ dir[AnalysisPath(clothing_id)].readable
    THEN Ok(dir[AnalysisPath(clothing_id)].value)
    ELSE Ok(DefaultAnalysis)

_analyze_clothing_fit(dir, body_model, clothing_ids) ==
    LET body_type ==
            Get(Get(body_model, "model_params", EmptyDict), "body_type", "unknown")
        fit_recommendations ==
            Get(Get(body_model, "model_params", EmptyDict),
                "fit_recommendations", EmptyDict)
        failing == {i \in 1..Len(clothing_ids) :
                       ~LoadAnalysis(dir, clothing_ids[i]).ok}
        entry(clothing_id) ==
            LET clothing_analysis == LoadAnalysis(dir, clothing_id).val
                clothing_type ==
                    Get(Get(clothing_analysis, "clothing_type", EmptyDict),
                        "type", "unknown")
            IN  [clothing_type |-> clothing_type,
                 fit_score |->
                     _calculate_fit_score(body_type, clothing_type, fit_recommendations),
                 recommendations |-> _get_fit_recommendations(body_type, clothing_type),
                 size_suggestion |-> _suggest_size(body_model, clothing_analysis)]
    IN  IF failing # {}
        THEN LoadAnalysis(dir, clothing_ids[CHOOSE i \in failing :
                                               \A j \in failing : i <= j])
        ELSE Ok([clothing_id \in Range(clothing_ids) |-> entry(clothing_id)])

(***************************************************************************)
(* Try-on generation (backend/api/tryons.py)                               *)
(* Anchor points are in the units of the key points (1/CoordDen), body     *)
(* bounds in the units of the mesh (1/MeshDen).                            *)
(***************************************************************************)
\* uploads/clothing/{clothing_id}_processed.png is <<clothing_id,
\* "_processed.png">>, and so on for _original.jpg
_process_clothing_for_tryon(dir, clothing_id, body_params) ==
    LET clothing_path ==
            IF <<clothing_id, "_processed.png">> \in DOMAIN dir
            THEN <<clothing_id, "_processed.png">>
            ELSE <<clothing_id, "_original.jpg">>
        shape_params == Get(body_params, "shape_parameters", EmptyDict)
    IN  [clothing_id |-> clothing_id,
         clothing_path |-> clothing_path,
         mesh_vertices |-> <<>>,
         mesh_faces |-> <<>>,
         texture_path |-> clothing_path,
         fit_parameters |->
             [scale_x |-> Get(shape_params, "shoulder_width_scale", Scale10),
              scale_y |-> Get(shape_params, "height_scale", Scale10),
              scale_z |-> Scale10]]

\* variant: a pair of anchors is taken from the key points only when both
\* sides are present
_generate_anchor_points_by_pair(body_model, clothing_meshes) ==
    LET key_points ==
            Get(Get(body_model, "landmarks", EmptyDict), "key_points", EmptyDict)
        both(names) == names \subseteq DOMAIN key_points
        kp == IF both({"left_shoulder", "right_shoulder"}) /\ both({"left_hip", "right_hip"})
              THEN key_points
              ELSE IF both({"left_shoulder", "right_shoulder"})
              THEN [n \in {"left_shoulder", "right_shoulder"} |-> key_points[n]]
              ELSE IF both({"left_hip", "right_hip"})
              THEN [n \in {"left_hip", "right_hip"} |-> key_points[n]]
              ELSE EmptyDict
    IN  [shoulders |->
             [left |-> Get(kp, "left_shoulder", Point(-200, 1500, 0)),
              right |-> Get(kp, "right_shoulder", Point(200, 1500, 0))],
         waist |-> [center |-> Point(0, 1000, 0)],
         hips |->
             [left |-> Get(kp, "left_hip", Point(-150, 800, 0)),
              right |-> Get(kp, "right_hip", Point(150, 800, 0))],
         chest |-> [center |-> Point(0, 1300, 0)]]

\* clothing_meshes is not read
_generate_anchor_points(body_model, clothing_meshes) ==
    LET landmarks == Get(body_model, "landmarks", EmptyDict)
        key_points == Get(landmarks, "key_points", EmptyDict)
    IN  [shoulders |->
             [left |-> Get(key_points, "left_shoulder", Point(-200, 1500, 0)),
              right |-> Get(key_points, "right_shoulder", Point(200, 1500, 0))],
         waist |-> [center |-> Point(0, 1000, 0)],
         hips |->
             [left |-> Get(key_points, "left_hip", Point(-150, 800, 0)),
              right |-> Get(key_points, "right_hip", Point(150, 800, 0))],
         chest |-> [center |-> Point(0, 1300, 0)]]

_calculate_fit_adjustments(body_params, clothing_meshes) ==
    LET shape_params == Get(body_params, "shape_parameters", EmptyDict)
        ids == {clothing_meshes[i].clothing_id : i \in 1..Len(clothing_meshes)}
        \* a later mesh of the same id overwrites the entry of an earlier one
        last(id) == clothing_meshes[
                        CHOOSE i \in 1..Len(clothing_meshes) :
                            /\ clothing_meshes[i].clothing_id = id
                            /\ \A j \in (i + 1)..Len(clothing_meshes) :
                                   clothing_meshes[j].clothing_id # id]
    IN  [global_scale |-> Get(shape_params, "height_scale", Scale10),
         shoulder_adjustment |-> Get(shape_params, "shoulder_width_scale", Scale10),
         waist_adjustment |-> Get(shape_params, "waist_width_scale", Scale10),
         hip_adjustment |-> Get(shape_params, "hip_width_scale", Scale10),
         length_adjustment |-> Get(shape_params, "leg_length_scale", Scale10),
         clothing_specific |->
             [id \in ids |->
                 [position_offset |-> Point(0, 0, 0),
                  rotation |-> Point(0, 0, 0),
                  scale_factors |-> last(id).fit_parameters]]]

\* variant: the box of the vertices that belong to a face
_calculate_body_bounds_of_faces(body_mesh) ==
    LET vertices == Get(body_mesh, "vertices", <<>>)
        faces == Get(body_mesh, "faces", <<>>)
        used == {faces[k][j] + 1 : k \in 1..Len(faces), j \in 1..3}
        axis(i) == {vertices[k][i] : k \in used}
        lo(S) == CHOOSE v \in S : \A w \in S : v <= w
        hi(S) == CHOOSE v \in S : \A w \in S : v >= w
    IN  IF used = {}
        THEN [min |-> Point(-MeshDen, 0, -MeshDen),
              max |-> Point(MeshDen, 2 * MeshDen, MeshDen)]
        ELSE [min |-> Point(lo(axis(1)), lo(axis(2)), lo(axis(3))),
              max |-> Point(hi(axis(1)), hi(axis(2)), hi(axis(3)))]

\* np.min / np.max over axis 0 of the vertex array; the unit box when the
\* list of vertices is empty or missing
_calculate_body_bounds(body_mesh) ==
    LET vertices == Get(body_mesh, "vertices", <<>>)
        axis(i) == {vertices[k][i] : k \in 1..Len(vertices)}
        lo(S) == CHOOSE v \in S : \A w \in S : v <= w
        hi(S) == CHOOSE v \in S : \A w \in S : v >= w
    IN  IF Len(vertices) = 0
        THEN [min |-> Point(-MeshDen, 0, -MeshDen),
              max |-> Point(MeshDen, 2 * MeshDen, MeshDen)]
        ELSE [min |-> Point(lo(axis(1)), lo(axis(2)), lo(axis(3))),
              max |-> Point(hi(axis(1)), hi(axis(2)), hi(axis(3)))]

\* `config` is not read; every datetime.now() of one request is `now`
_generate_virtual_tryon(dir, body_model, clothing_ids, config, now) ==
    LET body_mesh == Get(body_model, "mesh_data", EmptyDict)
        body_params == Get(body_model, "model_params", EmptyDict)
        clothing_meshes ==
            [i \in 1..Len(clothing_ids) |->
                _process_clothing_for_tryon(dir, clothing_ids[i], body_params)]
    IN  [body_mesh |-> body_mesh,
         clothing_meshes |-> clothing_meshes,
         anchor_points |-> _generate_anchor_points(body_model, clothing_meshes),
         fit_adjustments |-> _calculate_fit_adjustments(body_params, clothing_meshes),
         pose_landmarks |-> Get(body_model, "landmarks", EmptyDict),
         body_bounds |-> _calculate_body_bounds(body_mesh),
         scale_factor |->
             Get(Get(body_params, "shape_parameters", EmptyDict),
                 "height_scale", Scale10),
         generated_at |-> now]

(***************************************************************************)
(* Inputs of the fit analysis                                              *)
(***************************************************************************)
MaxGarments == 2        \* garment ids 1 .. MaxGarments
MaxVertices == 4        \* vertices of a hand-made mesh

GarmentIds == 1..MaxGarments

\* the strings of one column of the recommendation table
TableStrings(column) ==
    UNION {Range(recommendations[body_type][column]) :
              body_type \in DOMAIN recommendations}

\* garment types: what the detector reports, every string of the table, and
\* every pair of avoid strings in one type
GarmentTypes ==
    {"unknown", "shirt", "pants", "dress", "t-shirt"}
    \cup TableStrings("tops") \cup TableStrings("bottoms") \cup TableStrings("avoid")
    \cup {a \o " " \o b : a \in TableStrings("avoid"), b \in TableStrings("avoid")}

\* body type and fit recommendations as _analyze_clothing_fit reads them from
\* a body model: a table row, or "unknown" with {} or the default row; and
\* one record outside the table, in which a recommended type contains avoid
\* strings
RecommendationPairs ==
    {<<body_type, recommendations[body_type]>> : body_type \in DOMAIN recommendations}
    \cup {<<"unknown", EmptyDict>>, <<"unknown", DefaultRecommendation>>}
    \cup {<<"unknown", [tops |-> <<"t-shirt">>, bottoms |-> <<"pants">>,
                        avoid |-> <<"shirt", "t-">>]>>}

\* real shoulder widths (cm, in 1/CoordDen) at and next to every bucket limit
ShoulderWidths ==
    {0, 34999, 35000, 35001, 39999, 40000, 40001, 44999, 45000, 45001,
     49999, 50000, 50001, 60000}

RealMeasurementValues ==
    {EmptyDict}
    \cup {[shoulder_width |-> w, torso_length |-> 70000] : w \in ShoulderWidths}

StoredBodyModel(body_type, real_measurements) ==
    [measurements |-> [real_measurements |-> real_measurements],
     model_params |->
        [body_type |-> body_type,
         fit_recommendations |-> recommendations[body_type]]]

SizedBodyModels ==
    {StoredBodyModel("oval", real) : real \in RealMeasurementValues}

FitBodyModels ==
    {StoredBodyModel(body_type, real) :
        body_type \in DOMAIN recommendations,
        real \in {EmptyDict, [shoulder_width |-> 47500]}}

\* what an analysis file holds
AnalysisFiles ==
    {UnreadableFile, JsonFile(EmptyDict)}
    \cup {JsonFile([clothing_type |-> [type |-> type],
                    material |-> [material |-> "denim"]]) :
            type \in {"fitted", "tight_fitting", "shirt"}}

\* every uploads/clothing directory over the garment ids
ClothingDirs ==
    UNION {[{AnalysisPath(id) : id \in present} -> AnalysisFiles] :
              present \in SUBSET GarmentIds}

\* requests of one or two garment ids
ClothingIdLists ==
    {<<a>> : a \in GarmentIds} \cup {<<a, b>> : a \in GarmentIds, b \in GarmentIds}

\* body models for the anchor points: none of the file's keys, landmarks
\* without key points, and the landmarks of a narrow-shouldered posture with
\* every subset of the two shoulders and the two hips visible
AnchorBodyModels ==
    LET names == {"left_shoulder", "right_shoulder", "left_hip", "right_hip"}
    IN  {EmptyDict, [landmarks |-> EmptyDict]}
        \cup {[landmarks |->
                  Val(extract_pose_landmarks(
                      Image(TRUE, Some(Skeleton([sw |-> 50, hw |-> 100, vs |-> 1],
                                                (DOMAIN mp_indices \ names) \cup shown,
                                                0, VisDen, NumLandmarks)))))] :
                shown \in SUBSET names}

\* meshes for the body bounds: no vertices key, no vertices, one to MaxVertices
\* vertices over three points with the faces of the synthesizer's rule, and
\* two synthesized meshes
BoundsMeshes ==
    {EmptyDict, [vertices |-> <<>>, faces |-> <<>>]}
    \cup UNION {{[vertices |-> vs, faces |-> Faces(n)] :
                   vs \in [1..n -> {<<0, 0, 0>>, <<Mesh01, 0, -Mesh01>>,
                                    <<-Mesh01, 170 * Scale10, Mesh01>>}]} :
                n \in 1..MaxVertices}
    \cup {create_body_mesh([shape_parameters |-> sp]).val :
            sp \in {sp \in ArbitraryShapes :
                      /\ sp.shoulder_width_scale = Scale13
                      /\ sp.waist_width_scale = Scale08
                      /\ sp.hip_width_scale = Scale07}}

FitCalls ==
    {[fn |-> "_calculate_fit_score", body_type |-> pair[1],
      clothing_type |-> clothing_type, fit_recommendations |-> pair[2]] :
        pair \in RecommendationPairs, clothing_type \in GarmentTypes}
    \cup {[fn |-> "_suggest_size", body_model |-> body_model] :
            body_model \in SizedBodyModels}
    \cup {[fn |-> "_analyze_clothing_fit", body_model |-> body_model,
           clothing_ids |-> clothing_ids] :
            body_model \in FitBodyModels, clothing_ids \in ClothingIdLists}
    \cup {[fn |-> "_generate_anchor_points", body_model |-> body_model] :
            body_model \in AnchorBodyModels}
    \cup {[fn |-> "_calculate_body_bounds", body_mesh |-> body_mesh] :
            body_mesh \in BoundsMeshes}

(***************************************************************************)
(* One fit-analysis call                                                   *)
(***************************************************************************)
InitFit ==
    /\ ApiInit
    /\ stage = "idle"
    /\ landmarks_data = NoLandmarks
    /\ user_height = None
    /\ measurements = NotRun
    /\ model_params = NotRun
    /\ mesh_data = NotRun
    /\ error = NotRun
    /\ runs = <<>>
    /\ fit_call \in FitCalls
    /\ clothing \in IF fit_call.fn = "_analyze_clothing_fit"
                    THEN ClothingDirs ELSE {EmptyDict}
    /\ sessions = EmptyDict
    /\ fit_result = NotRun

CalculateFitScore ==
    /\ fit_call.fn = "_calculate_fit_score"
    /\ fit_result = NotRun
    /\ fit_result' = Ok(_calculate_fit_score(fit_call.body_type,
                                             fit_call.clothing_type,
                                             fit_call.fit_recommendations))
    /\ UNCHANGED <<clothing, sessions, fit_call>>
    /\ UNCHANGED <<files, next_uuid, response, service_calls, clock>>
    /\ UNCHANGED pipeVars

SuggestSize ==
    /\ fit_call.fn = "_suggest_size"
    /\ fit_result = NotRun
    /\ fit_result' = Ok(_suggest_size(fit_call.body_model, DefaultAnalysis))
    /\ UNCHANGED <<clothing, sessions, fit_call>>
    /\ UNCHANGED <<files, next_uuid, response, service_calls, clock>>
    /\ UNCHANGED pipeVars

AnalyzeClothingFit ==
    /\ fit_call.fn = "_analyze_clothing_fit"
    /\ fit_result = NotRun
    /\ fit_result' = _analyze_clothing_fit(clothing, fit_call.body_model,
                                           fit_call.clothing_ids)
    /\ UNCHANGED <<clothing, sessions, fit_call>>
    /\ UNCHANGED <<files, next_uuid, response, service_calls, clock>>
    /\ UNCHANGED pipeVars

GenerateAnchorPoints ==
    /\ fit_call.fn = "_generate_anchor_points"
    /\ fit_result = NotRun
    /\ fit_result' = Ok(_generate_anchor_points(fit_call.body_model, <<>>))
    /\ UNCHANGED <<clothing, sessions, fit_call>>
    /\ UNCHANGED <<files, next_uuid, response, service_calls, clock>>
    /\ UNCHANGED pipeVars

CalculateBodyBounds ==
    /\ fit_call.fn = "_calculate_body_bounds"
    /\ fit_result = NotRun
    /\ fit_result' = Ok(_calculate_body_bounds(fit_call.body_mesh))
    /\ UNCHANGED <<clothing, sessions, fit_call>>
    /\ UNCHANGED <<files, next_uuid, response, service_calls, clock>>
    /\ UNCHANGED pipeVars

NextFit ==
    \/ CalculateFitScore
    \/ SuggestSize
    \/ AnalyzeClothingFit
    \/ GenerateAnchorPoints
    \/ CalculateBodyBounds

SpecFit == InitFit /\ [][NextFit]_vars

(***************************************************************************)
(* Try-on sessions (backend/api/tryons.py), one request at a time          *)
(* uploads/tryons/{session_id}_session.json is <<session_id,               *)
(* "_session.json">>; its content is JsonFile(session_data).  Every        *)
(* datetime.now() of one request returns the same value, clock + 1.        *)
(***************************************************************************)
MaxSessions == 1        \* try-on sessions created
MaxRequests == 3        \* datetime.now() values the try-on handlers draw

\* uploads/clothing of the try-on scenarios: garments 1 .. MaxGarments + 1
\* have an original image, the odd ones a processed image too; garment
\* MaxGarments + 2 has no file
TryonClothing ==
    LET names == {<<id, "_original.jpg">> : id \in 1..(MaxGarments + 1)}
                 \cup {<<id, "_processed.png">> :
                          id \in {i \in 1..(MaxGarments + 1) : i % 2 = 1}}
    IN  [name \in names |-> [image |-> name[2]]]

\* POST /create
CreateTryonSession(body_model_id, clothing_ids, pose_type, lighting) ==
    LET missing == {i \in 1..Len(clothing_ids) :
                       /\ <<clothing_ids[i], "_processed.png">> \notin DOMAIN clothing
                       /\ <<clothing_ids[i], "_original.jpg">> \notin DOMAIN clothing}
        session_id == next_uuid + 1
        now == clock + 1
        body_model == files[ModelPath(body_model_id)]
        tryon_config ==
            [session_id |-> session_id,
             body_model_id |-> body_model_id,
             clothing_ids |-> clothing_ids,
             pose_type |-> pose_type,
             lighting |-> lighting,
             created_at |-> now,
             status |-> "initialized"]
        tryon_result ==
            _generate_virtual_tryon(clothing, body_model, clothing_ids,
                                    tryon_config, now)
        session_data ==
            Put(Put(tryon_config, "tryon_result", tryon_result),
                "body_model_summary",
                [body_type |->
                     Get(Get(body_model, "model_params", EmptyDict),
                         "body_type", None),
                 measurements |->
                     Get(Get(body_model, "measurements", EmptyDict),
                         "real_measurements", EmptyDict)])
        fit_analysis == _analyze_clothing_fit(clothing, body_model, clothing_ids)
        \* _get_styling_recommendations; the rating and the confidence in tenths
        styling ==
            [outfit_rating |-> 75,
             style_tips |->
                 <<"Consider adding a belt to define your waist",
                   "This color complements your body type well",
                   "Try layering for more visual interest">>,
             alternative_suggestions |->
                 <<"Try a slightly looser fit for comfort",
                   "Consider similar items in different colors",
                   "Add accessories to complete the look">>,
             body_type_specific |->
                 Get(Get(body_model, "model_params", EmptyDict),
                     "fit_recommendations", EmptyDict),
             confidence_score |-> 8]
    IN  /\ Cardinality(DOMAIN sessions) < MaxSessions
        /\ clock < MaxRequests
        /\ IF ModelPath(body_model_id) \notin DOMAIN files
           THEN /\ response' = Response("create", 404,
                       [detail |-> "Body model not found"])
                /\ UNCHANGED <<sessions, next_uuid, clock>>
           ELSE IF missing # {}
           THEN /\ response' = Response("create", 404,
                       [detail |-> "Clothing item not found",
                        clothing_id |->
                            clothing_ids[CHOOSE i \in missing :
                                            \A j \in missing : i <= j]])
                /\ UNCHANGED <<sessions, next_uuid, clock>>
           ELSE /\ next_uuid' = session_id
                /\ clock' = now
                /\ sessions' = Put(sessions, <<session_id, "_session.json">>,
                                   JsonFile(session_data))
                /\ response' =
                      IF fit_analysis.ok
                      THEN Response("create", 200,
                               [session_id |-> session_id,
                                tryon_result |-> tryon_result,
                                fit_analysis |-> fit_analysis.val,
                                recommendations |-> styling])
                      ELSE Response("create", 500,
                               [detail |-> Wrapped("Try-on creation failed",
                                                   fit_analysis.err)])
        /\ UNCHANGED <<files, service_calls, clothing, fit_call, fit_result>>
        /\ UNCHANGED pipeVars

\* variant: the try-on is regenerated for the garments the session had before
\* the append
add_clothing_stale_tryon(dir, session_data, body_model, clothing_id, now) ==
    LET clothing_ids == Append(session_data["clothing_ids"], clothing_id)
        appended == Put(session_data, "clothing_ids", clothing_ids)
        updated_tryon ==
            _generate_virtual_tryon(dir, body_model, session_data["clothing_ids"],
                                    appended, now)
    IN  IF clothing_id \in Range(session_data["clothing_ids"])
        THEN [written |-> FALSE, session_data |-> session_data]
        ELSE [written |-> TRUE,
              session_data |->
                  Put(Put(appended, "tryon_result", updated_tryon),
                      "updated_at", now)]

\* variant: no `if clothing_id not in session_data["clothing_ids"]`
add_clothing_unconditional(dir, session_data, body_model, clothing_id, now) ==
    LET clothing_ids == Append(session_data["clothing_ids"], clothing_id)
        appended == Put(session_data, "clothing_ids", clothing_ids)
        updated_tryon ==
            _generate_virtual_tryon(dir, body_model, clothing_ids, appended, now)
    IN  [written |-> TRUE,
         session_data |->
             Put(Put(appended, "tryon_result", updated_tryon), "updated_at", now)]

\* the body of add_clothing_to_tryon between reading the session and
\* answering: the session_data the response is built from, and whether it was
\* written back
add_clothing(dir, session_data, body_model, clothing_id, now) ==
    LET clothing_ids == Append(session_data["clothing_ids"], clothing_id)
        appended == Put(session_data, "clothing_ids", clothing_ids)
        updated_tryon ==
            _generate_virtual_tryon(dir, body_model, clothing_ids, appended, now)
    IN  IF clothing_id \in Range(session_data["clothing_ids"])
        THEN [written |-> FALSE, session_data |-> session_data]
        ELSE [written |-> TRUE,
              session_data |->
                  Put(Put(appended, "tryon_result", updated_tryon),
                      "updated_at", now)]

\* POST /{session_id}/add-clothing
AddClothingToTryon(session_id, clothing_id) ==
    LET session_path == <<session_id, "_session.json">>
        session_data == sessions[session_path].value
        body_model_path == ModelPath(session_data["body_model_id"])
        r == add_clothing(clothing, session_data, files[body_model_path],
                          clothing_id, clock + 1)
        failed(e) ==
            /\ response' = Response("add-clothing", 500,
                   [detail |-> Wrapped("Failed to add clothing", e)])
            /\ UNCHANGED <<sessions, clock>>
    IN  /\ clock < MaxRequests
        /\ IF session_path \notin DOMAIN sessions
           THEN /\ response' = Response("add-clothing", 404,
                       [detail |-> "Try-on session not found"])
                /\ UNCHANGED <<sessions, clock>>
           ELSE IF /\ <<clothing_id, "_processed.png">> \notin DOMAIN clothing
                   /\ <<clothing_id, "_original.jpg">> \notin DOMAIN clothing
           THEN /\ response' = Response("add-clothing", 404,
                       [detail |-> "Clothing item not found"])
                /\ UNCHANGED <<sessions, clock>>
           ELSE IF ~sessions[session_path].readable
           THEN failed([type |-> "JSONDecodeError", arg |-> session_path])
           ELSE IF /\ clothing_id \notin Range(session_data["clothing_ids"])
                   /\ body_model_path \notin DOMAIN files
           THEN failed([type |-> "FileNotFoundError", arg |-> body_model_path])
           ELSE /\ IF r.written
                   THEN /\ sessions' = Put(sessions, session_path,
                                           JsonFile(r.session_data))
                        /\ clock' = clock + 1
                   ELSE UNCHANGED <<sessions, clock>>
                /\ response' = Response("add-clothing", 200,
                       [session_id |-> session_id,
                        clothing_ids |-> r.session_data["clothing_ids"],
                        updated_tryon |-> r.session_data["tryon_result"]])
        /\ UNCHANGED <<files, next_uuid, service_calls, clothing, fit_call, fit_result>>
        /\ UNCHANGED pipeVars

\* POST /{session_id}/update-pose; custom_pose_data is None or Some(text),
\* the text a JsonFile or an UnreadableFile (the empty text, which is falsy,
\* behaves as None)
UpdateTryonPose(session_id, pose_type, custom_pose_data) ==
    LET session_path == <<session_id, "_session.json">>
        now == clock + 1
        posed == Put(sessions[session_path].value, "pose_type", pose_type)
        session_data ==
            IF custom_pose_data # None
            THEN Put(posed, "custom_pose_data", Val(custom_pose_data).value)
            ELSE posed
        body_model_path == ModelPath(session_data["body_model_id"])
        stored_model == files[body_model_path]
        body_model ==
            IF custom_pose_data # None
            THEN Put(stored_model, "model_params",
                     Put(stored_model["model_params"], "pose_parameters",
                         Val(custom_pose_data).value))
            ELSE stored_model
        updated_tryon ==
            _generate_virtual_tryon(clothing, body_model,
                                    session_data["clothing_ids"], session_data, now)
        failed(e) ==
            /\ response' = Response("update-pose", 500,
                   [detail |-> Wrapped("Pose update failed", e)])
            /\ UNCHANGED <<sessions, clock>>
    IN  /\ clock < MaxRequests
        /\ IF session_path \notin DOMAIN sessions
           THEN /\ response' = Response("update-pose", 404,
                       [detail |-> "Try-on session not found"])
                /\ UNCHANGED <<sessions, clock>>
           ELSE IF ~sessions[session_path].readable
           THEN failed([type |-> "JSONDecodeError", arg |-> session_path])
           ELSE IF custom_pose_data # None /\ ~Val(custom_pose_data).readable
           THEN failed([type |-> "JSONDecodeError", arg |-> "custom_pose_data"])
           ELSE IF body_model_path \notin DOMAIN files
           THEN failed([type |-> "FileNotFoundError", arg |-> body_model_path])
           ELSE IF custom_pose_data # None /\ "model_params" \notin DOMAIN stored_model
           THEN failed(KeyError("model_params"))
           ELSE /\ sessions' =
                      Put(sessions, session_path,
                          JsonFile(Put(Put(session_data, "tryon_result", updated_tryon),
                                       "updated_at", now)))
                /\ clock' = now
                /\ response' = Response("update-pose", 200,
                       [session_id |-> session_id,
                        updated_tryon |-> updated_tryon,
                        updated_at |-> now])
        /\ UNCHANGED <<files, next_uuid, service_calls, clothing, fit_call, fit_result>>
        /\ UNCHANGED pipeVars

\* one stored body model, the garments of TryonClothing, no session
InitTryon ==
    /\ stage = "idle"
    /\ landmarks_data = NoLandmarks
    /\ user_height = None
    /\ measurements = NotRun
    /\ model_params = NotRun
    /\ mesh_data = NotRun
    /\ error = NotRun
    /\ files \in {Put(Put(EmptyDict, OriginalPath(1), image),
                      ModelPath(1), create_body_model(image, None).val) :
                    image \in {i \in StoreImages : i.pose # None}}
    /\ next_uuid = 1
    /\ response = [op |-> "none", status_code |-> 0, content |-> EmptyDict]
    /\ service_calls = <<>>
    /\ clock = 0
    /\ clothing = TryonClothing
    /\ sessions = EmptyDict
    /\ fit_call = NotRun
    /\ fit_result = NotRun
    /\ runs = <<>>

\* try-on requests, one at a time: the body model ids 1 (stored) and 2, the
\* session ids 2 (the first uuid4 drawn) to MaxSessions + 2; a session is
\* requested for one garment, for two, for the same garment twice, or for a
\* garment without a file
NextTryon ==
    \/ \E body_model_id \in {1, 2},
          clothing_ids \in {<<2>>, <<2, 1>>, <<1, 1>>, <<MaxGarments + 2>>},
          pose_type \in {"standing"} :
          CreateTryonSession(body_model_id, clothing_ids, pose_type, "natural")
    \/ \E session_id \in 2..(MaxSessions + 2), clothing_id \in 1..(MaxGarments + 2) :
          AddClothingToTryon(session_id, clothing_id)
    \/ \E session_id \in 2..(MaxSessions + 2), pose_type \in {"standing", "walking"},
          custom_pose_data \in {None, Some(JsonFile([arm_position |-> "raised"])),
                                Some(UnreadableFile)} :
          UpdateTryonPose(session_id, pose_type, custom_pose_data)

SpecTryon == InitTryon /\ [][NextTryon]_vars

(***************************************************************************)
(* Two pipeline executions of the one service object, interleaved          *)
(***************************************************************************)
RunIds == {1, 2}

\* the locals of create_body_model once pose.process has returned
StartLocals(request) ==
    [stage |-> "landmarks",
     landmarks_data |-> [landmarks |-> request.landmarks],
     user_height |-> request.user_height,
     measurements |-> NotRun,
     model_params |-> NotRun,
     mesh_data |-> NotRun,
     error |-> NotRun]

\* variant: the locals are attributes of the service object, which holds
\* those of its first execution
Locals_on_service(rs, p) == rs[1].locals

\* the locals execution p works on: its own
Locals(rs, p) == rs[p].locals

\* a failed step: the exception leaves create_body_model
Failed(l, e) == [l EXCEPT !.stage = "failed", !.error = e]

RunExtractKeyPoints(p) ==
    LET l == Locals(runs, p)
    IN  /\ l.stage = "landmarks"
        /\ runs' = [runs EXCEPT ![p].locals =
              [l EXCEPT !.stage = "key_points",
                        !.landmarks_data =
                            [landmarks |-> l.landmarks_data.landmarks,
                             key_points |->
                                 _extract_key_body_points(l.landmarks_data.landmarks),
                             total_landmarks |-> Len(l.landmarks_data.landmarks)]]]
        /\ UNCHANGED <<runVars, apiVars>>

RunCalculateBodyMeasurements(p) ==
    LET l == Locals(runs, p)
        r == calculate_body_measurements(l.landmarks_data, l.user_height)
    IN  /\ l.stage = "key_points"
        /\ runs' = [runs EXCEPT ![p].locals =
              IF r.ok THEN [l EXCEPT !.stage = "measured", !.measurements = r.val]
              ELSE Failed(l, r.err)]
        /\ UNCHANGED <<runVars, apiVars>>

RunGenerate3dModelParams(p) ==
    LET l == Locals(runs, p)
        r == generate_3d_model_params(l.landmarks_data, l.measurements)
    IN  /\ l.stage = "measured"
        /\ runs' = [runs EXCEPT ![p].locals =
              IF r.ok THEN [l EXCEPT !.stage = "shaped", !.model_params = r.val]
              ELSE Failed(l, r.err)]
        /\ UNCHANGED <<runVars, apiVars>>

RunCreateBodyMesh(p) ==
    LET l == Locals(runs, p)
        r == create_body_mesh(l.model_params)
    IN  /\ l.stage = "shaped"
        /\ runs' = [runs EXCEPT ![p].locals =
              IF r.ok THEN [l EXCEPT !.stage = "meshed", !.mesh_data = r.val]
              ELSE Failed(l, r.err)]
        /\ UNCHANGED <<runVars, apiVars>>

\* the skeletons of the concurrent requests: the reference posture, a
\* narrow-shouldered one, one with the left hip hidden and a flat one
ConcurrentSkeletons ==
    {Skeleton(pose, DOMAIN mp_indices, 0, VisDen, NumLandmarks) :
        pose \in {ReferencePose, [sw |-> 50, hw |-> 100, vs |-> 1],
                  [sw |-> 200, hw |-> 150, vs |-> 0]}}
    \cup {Skeleton(ReferencePose, DOMAIN mp_indices \ {"left_hip"}, 0, VisDen,
                   NumLandmarks)}

ConcurrentRequests ==
    [landmarks : ConcurrentSkeletons, user_height : {None, Some(180)}]

InitConcurrent ==
    /\ ApiInit
    /\ stage = "idle"
    /\ landmarks_data = NoLandmarks
    /\ user_height = None
    /\ measurements = NotRun
    /\ model_params = NotRun
    /\ mesh_data = NotRun
    /\ error = NotRun
    /\ clothing = EmptyDict
    /\ sessions = EmptyDict
    /\ fit_call = NotRun
    /\ fit_result = NotRun
    /\ runs \in [RunIds -> {[request |-> request, locals |-> StartLocals(request)] :
                              request \in ConcurrentRequests}]

NextConcurrent ==
    \E p \in RunIds :
        \/ RunExtractKeyPoints(p)
        \/ RunCalculateBodyMeasurements(p)
        \/ RunGenerate3dModelParams(p)
        \/ RunCreateBodyMesh(p)

SpecConcurrent == InitConcurrent /\ [][NextConcurrent]_vars

(***************************************************************************)
(* Two add-clothing requests on the event loop, interleaved at the awaits  *)
(* of the file operations.  runs[r].locals holds the position and the      *)
(* local variables of request r.  open(path, 'w') truncates the file; the  *)
(* text reaches it when the file is written and closed.                    *)
(***************************************************************************)
\* up to the end of `json.loads(await f.read())` and the membership test
\* that follows it without an await
AddReadSession(r) ==
    LET request == runs[r].request
        session_path == <<request.session_id, "_session.json">>
        done(status_code, content) ==
            runs' = [runs EXCEPT ![r].locals =
                        [pc |-> "done",
                         response |-> Response("add-clothing", status_code, content)]]
    IN  /\ runs[r].locals.pc = "start"
        /\ IF session_path \notin DOMAIN sessions
           THEN done(404, [detail |-> "Try-on session not found"])
           ELSE IF /\ <<request.clothing_id, "_processed.png">> \notin DOMAIN clothing
                   /\ <<request.clothing_id, "_original.jpg">> \notin DOMAIN clothing
           THEN done(404, [detail |-> "Clothing item not found"])
           ELSE IF ~sessions[session_path].readable
           THEN done(500, [detail |->
                              Wrapped("Failed to add clothing",
                                      [type |-> "JSONDecodeError", arg |-> session_path])])
           ELSE LET session_data == sessions[session_path].value
                IN  IF request.clothing_id \in Range(session_data["clothing_ids"])
                    THEN done(200, [session_id |-> request.session_id,
                                    clothing_ids |-> session_data["clothing_ids"],
                                    updated_tryon |-> session_data["tryon_result"]])
                    ELSE runs' = [runs EXCEPT ![r].locals =
                                     [pc |-> "read", session_data |-> session_data]]
        /\ UNCHANGED <<runVars, apiVars>>

\* the append and the read of the body model file
AddReadBodyModel(r) ==
    LET locals == runs[r].locals
        body_model_path == ModelPath(locals.session_data["body_model_id"])
    IN  /\ locals.pc = "read"
        /\ IF body_model_path \notin DOMAIN files
           THEN runs' = [runs EXCEPT ![r].locals =
                            [pc |-> "done",
                             response |->
                                 Response("add-clothing", 500,
                                     [detail |->
                                         Wrapped("Failed to add clothing",
                                                 [type |-> "FileNotFoundError",
                                                  arg |-> body_model_path])])]]
           ELSE runs' = [runs EXCEPT ![r].locals =
                            [pc |-> "loaded",
                             session_data |-> locals.session_data,
                             body_model |-> files[body_model_path]]]
        /\ UNCHANGED <<runVars, apiVars>>

\* _generate_virtual_tryon, the updated_at stamp and open(session_path, 'w')
AddOpenSession(r) ==
    LET request == runs[r].request
        locals == runs[r].locals
        updated == add_clothing(clothing, locals.session_data, locals.body_model,
                                request.clothing_id, clock + 1)
    IN  /\ locals.pc = "loaded"
        /\ clock' = clock + 1
        /\ sessions' = Put(sessions, <<request.session_id, "_session.json">>,
                           UnreadableFile)
        /\ runs' = [runs EXCEPT ![r].locals =
                       [pc |-> "writing", session_data |-> updated.session_data]]
        /\ UNCHANGED <<files, next_uuid, response, service_calls, clothing,
                       fit_call, fit_result>>
        /\ UNCHANGED runVars

\* f.write, the close and the response.  The text goes to offset 0 of the file
\* as it is now: when another request has written since this one's open, the
\* file holds this text, followed by what is left of a longer earlier text
AddWriteSession(r) ==
    LET request == runs[r].request
        locals == runs[r].locals
        session_path == <<request.session_id, "_session.json">>
    IN  /\ locals.pc = "writing"
        /\ \E content \in {JsonFile(locals.session_data)}
                          \cup (IF sessions[session_path].readable
                                THEN {UnreadableFile} ELSE {}) :
              sessions' = Put(sessions, session_path, content)
        /\ runs' = [runs EXCEPT ![r].locals =
                       [pc |-> "done",
                        response |->
                            Response("add-clothing", 200,
                                [session_id |-> request.session_id,
                                 clothing_ids |-> locals.session_data["clothing_ids"],
                                 updated_tryon |-> locals.session_data["tryon_result"]])]]
        /\ UNCHANGED <<files, next_uuid, response, service_calls, clock, clothing,
                       fit_call, fit_result>>
        /\ UNCHANGED runVars

\* one stored body model, the garments of TryonClothing, and two add-clothing
\* requests for the session that will get the first uuid4 drawn
InitAddClothing ==
    /\ stage = "idle"
    /\ landmarks_data = NoLandmarks
    /\ user_height = None
    /\ measurements = NotRun
    /\ model_params = NotRun
    /\ mesh_data = NotRun
    /\ error = NotRun
    /\ files \in {Put(Put(EmptyDict, OriginalPath(1), image),
                      ModelPath(1), create_body_model(image, None).val) :
                    image \in {i \in StoreImages : i.pose # None}}
    /\ next_uuid = 1
    /\ response = [op |-> "none", status_code |-> 0, content |-> EmptyDict]
    /\ service_calls = <<>>
    /\ clock = 0
    /\ clothing = TryonClothing
    /\ sessions = EmptyDict
    /\ fit_call = NotRun
    /\ fit_result = NotRun
    /\ runs \in [RunIds ->
                    {[request |-> [session_id |-> 2, clothing_id |-> clothing_id],
                      locals |-> [pc |-> "start"]] :
                        clothing_id \in 1..(MaxGarments + 2)}]

\* the session is created with garment 1; the steps of the two requests
\* interleave
NextAddClothing ==
    \/ CreateTryonSession(1, <<1>>, "standing", "natural")
    \/ \E r \in RunIds :
          \/ AddReadSession(r)
          \/ AddReadBodyModel(r)
          \/ AddOpenSession(r)
          \/ AddWriteSession(r)

SpecAddClothing == InitAddClothing /\ [][NextAddClothing]_vars

(***************************************************************************)
(* Properties of the Shape Parameter Normalizer and Measurement Estimator  *)
(* (checked under SpecPipeline)                                            *)
(***************************************************************************)
\* calculate_body_measurements has been applied to a KeyPointSet produced by
\* the Keypoint Deriver
MeasuredFromKeyPoints ==
    /\ stage \in {"measured", "shaped", "meshed", "failed"}
    /\ landmarks_data.total_landmarks > 0

\* calculate_body_measurements returned a result for such a KeyPointSet
MeasurementResult == MeasuredFromKeyPoints /\ measurements # NotRun

\* generate_3d_model_params has been applied to a Measurements value
NormalizerApplied ==
    /\ stage \in {"shaped", "meshed", "failed"}
    /\ measurements # NotRun

\* the two key points each pixel metric is computed from
RequiredPoints ==
    [shoulder_width |-> {"left_shoulder", "right_shoulder"},
     torso_length |-> {"shoulder_center", "hip_center"},
     leg_length |-> {"hip_center", "ankle_center"},
     hip_width |-> {"left_hip", "right_hip"}]

\* C1: for every Measurements input the normalizer returns, without failing,
\* shoulder_width_scale and hip_width_scale in [0.7, 1.3] and
\* leg_length_scale in [0.8, 1.2], also when leg_length and torso_length are
\* present and torso_length is 0.
C1_ScalesClampedForEveryInput ==
    NormalizerApplied =>
        /\ stage # "failed"
        /\ model_params.shape_parameters.shoulder_width_scale \in Scale07..Scale13
        /\ model_params.shape_parameters.hip_width_scale \in Scale07..Scale13
        /\ model_params.shape_parameters.leg_length_scale \in Scale08..Scale12

\* C2: for every KeyPointSet of the Keypoint Deriver,
\* calculate_body_measurements returns a result, in which a metric is present
\* exactly when both of its key points are present.
C2_MissingInputsOmitMetric ==
    MeasuredFromKeyPoints =>
        /\ measurements # NotRun
        /\ \A metric \in MetricNames :
              metric \in DOMAIN measurements.pixel_measurements
              <=> RequiredPoints[metric] \subseteq DOMAIN landmarks_data.key_points

\* C4: in every result of calculate_body_measurements, real_measurements is
\* non-empty only if a reference height was supplied, torso_length is in
\* pixel_measurements and nose and ankle_center differ in y.
C4_RealMeasurementsGated ==
    MeasurementResult =>
        (measurements.real_measurements # EmptyDict =>
            /\ user_height # None
            /\ "torso_length" \in DOMAIN measurements.pixel_measurements
            /\ "nose" \in DOMAIN landmarks_data.key_points
            /\ "ankle_center" \in DOMAIN landmarks_data.key_points
            /\ landmarks_data.key_points["nose"].y
                  # landmarks_data.key_points["ankle_center"].y)

\* a result with real measurements
C4_Witness ==
    /\ MeasurementResult
    /\ stage = "measured"
    /\ measurements.real_measurements # EmptyDict
    /\ user_height = Some(180)

\* C5: with left_shoulder and right_shoulder present, hip_center (hence
\* torso_length) missing and a reference height supplied,
\* calculate_body_measurements returns a result with shoulder_width in
\* pixel_measurements and empty real_measurements.
C5_ShoulderOnlyResult ==
    ( /\ MeasuredFromKeyPoints
      /\ {"left_shoulder", "right_shoulder"} \subseteq DOMAIN landmarks_data.key_points
      /\ ~({"shoulder_center", "hip_center"} \subseteq DOMAIN landmarks_data.key_points)
      /\ user_height # None )
    => /\ measurements # NotRun
       /\ "shoulder_width" \in DOMAIN measurements.pixel_measurements
       /\ measurements.real_measurements = EmptyDict

\* C6: when a reference height is supplied, torso_length is present and
\* total_body_height > 0, the scale_factor of the result is
\* reference_height / total_body_height.
C6_ScaleFactorReported ==
    ( /\ MeasurementResult
      /\ user_height # None
      /\ "torso_length" \in DOMAIN measurements.pixel_measurements
      /\ _calculate_total_body_height(landmarks_data.key_points) > 0 )
    => measurements.scale_factor =
          ScaleFactor(Val(user_height),
                      _calculate_total_body_height(landmarks_data.key_points))

\* the Keypoint Deriver has been applied to a skeleton
KeyPointsDerived ==
    /\ stage # "landmarks"
    /\ landmarks_data.total_landmarks > 0

\* each derived midpoint with its left and right points
MidpointPairs ==
    [shoulder_center |-> <<"left_shoulder", "right_shoulder">>,
     hip_center |-> <<"left_hip", "right_hip">>,
     ankle_center |-> <<"left_ankle", "right_ankle">>]

\* C14: the Keypoint Deriver retains a named point exactly when its landmark
\* exists in the input sequence and has visibility > 0.5 (exactly 0.5 is
\* dropped), with the landmark's coordinates; a midpoint is in the output iff
\* both its left and right points are, and then each of its x, y, z is the
\* arithmetic mean of the pair; nothing else is in the output.
C14_RetainedIffVisible ==
    KeyPointsDerived =>
        LET landmarks == landmarks_data.landmarks
            key_points == landmarks_data.key_points
        IN  /\ DOMAIN key_points \subseteq DOMAIN mp_indices \cup DOMAIN MidpointPairs
            /\ \A name \in DOMAIN mp_indices :
                  /\ name \in DOMAIN key_points
                     <=> /\ mp_indices[name] + 1 \in 1..Len(landmarks)
                         /\ 2 * landmarks[mp_indices[name] + 1].visibility > VisDen
                  /\ name \in DOMAIN key_points =>
                        /\ key_points[name].x = landmarks[mp_indices[name] + 1].x
                        /\ key_points[name].y = landmarks[mp_indices[name] + 1].y
                        /\ key_points[name].z = landmarks[mp_indices[name] + 1].z
            /\ \A mid \in DOMAIN MidpointPairs :
                  LET left == MidpointPairs[mid][1]
                      right == MidpointPairs[mid][2]
                  IN  /\ mid \in DOMAIN key_points
                         <=> {left, right} \subseteq DOMAIN key_points
                      /\ mid \in DOMAIN key_points =>
                            /\ 2 * key_points[mid].x
                                  = key_points[left].x + key_points[right].x
                            /\ 2 * key_points[mid].y
                                  = key_points[left].y + key_points[right].y
                            /\ 2 * key_points[mid].z
                                  = key_points[left].z + key_points[right].z

\* a skeleton of 33 landmarks whose left hip has visibility exactly 0.5: the
\* left hip and hip_center are dropped, shoulder_center is derived
C14_Witness ==
    /\ stage = "key_points"
    /\ Len(landmarks_data.landmarks) = NumLandmarks
    /\ 2 * landmarks_data.landmarks[mp_indices["left_hip"] + 1].visibility = VisDen
    /\ "left_hip" \notin DOMAIN landmarks_data.key_points
    /\ "right_hip" \in DOMAIN landmarks_data.key_points
    /\ "hip_center" \notin DOMAIN landmarks_data.key_points
    /\ "shoulder_center" \in DOMAIN landmarks_data.key_points
    /\ landmarks_data.key_points["shoulder_center"] = Point(0, 1500, 0)

\* C15: estimated_height in the result of calculate_body_measurements is the
\* caller-supplied height whenever one was supplied (0 included), and 170
\* only when none was supplied.
C15_EstimatedHeightIsSuppliedHeight ==
    MeasurementResult =>
        measurements.estimated_height
            = IF user_height # None THEN Val(user_height) ELSE 170

\* C19: when a reference height is supplied, torso_length is present and
\* |nose.y - ankle_center.y| > 0, real_measurements has exactly the keys of
\* pixel_measurements and each value is the pixel value multiplied by
\* reference_height / |nose.y - ankle_center.y|.
C19_RealMeasurementsScaled ==
    ( /\ MeasurementResult
      /\ user_height # None
      /\ "torso_length" \in DOMAIN measurements.pixel_measurements
      /\ {"nose", "ankle_center"} \subseteq DOMAIN landmarks_data.key_points
      /\ landmarks_data.key_points["nose"].y
            # landmarks_data.key_points["ankle_center"].y )
    => LET total_body_height ==
               Abs(landmarks_data.key_points["nose"].y
                   - landmarks_data.key_points["ankle_center"].y)
           factor == (Val(user_height) * CoordDen * CoordDen) \div total_body_height
       IN  /\ DOMAIN measurements.real_measurements
                = DOMAIN measurements.pixel_measurements
           /\ \A m \in DOMAIN measurements.real_measurements :
                 measurements.real_measurements[m]
                    = (measurements.pixel_measurements[m] * factor) \div CoordDen

\* clamp(v, lo, hi)
Clamp(v, lo, hi) == IF v < lo THEN lo ELSE IF v > hi THEN hi ELSE v

\* C20: for every Measurements input the normalizer returns height_scale =
\* estimated_height / 170, shoulder and hip scales clamp(px / 0.18 resp.
\* px / 0.16, 0.7, 1.3) or 1.0 when the metric is absent, leg_length_scale
\* clamp((leg / torso) / 1.3, 0.8, 1.2) when both are present else 1.0, and
\* waist_width_scale (shoulder + hip) / 2 * 0.8 of the clamped values.
C20_NormalizerMatchesFormulas ==
    NormalizerApplied =>
        LET pm == measurements.pixel_measurements
            sp == model_params.shape_parameters
            shoulder == IF "shoulder_width" \in DOMAIN pm
                        THEN Clamp((pm["shoulder_width"] * ScaleDen) \div 180,
                                   Scale07, Scale13)
                        ELSE Scale10
            hip == IF "hip_width" \in DOMAIN pm
                   THEN Clamp((pm["hip_width"] * ScaleDen) \div 160, Scale07, Scale13)
                   ELSE Scale10
        IN  /\ stage # "failed"
            /\ sp.height_scale = (measurements.estimated_height * ScaleDen) \div 170
            /\ sp.shoulder_width_scale = shoulder
            /\ sp.hip_width_scale = hip
            /\ sp.waist_width_scale * 10 = (shoulder + hip) * 4
            /\ sp.leg_length_scale
                  = IF {"leg_length", "torso_length"} \subseteq DOMAIN pm
                    THEN Clamp((pm["leg_length"] * ScaleDen * 10)
                                  \div (pm["torso_length"] * 13), Scale08, Scale12)
                    ELSE Scale10

(***************************************************************************)
(* Properties of the Body Type Classifier and the Mesh Synthesizer         *)
(* (checked under SpecPipeline)                                            *)
(***************************************************************************)
BodyTypes == {"inverted_triangle", "pear", "hourglass", "rectangle", "oval"}

\* the shape parameters of the run have been classified
Classified == stage \in {"shaped", "meshed"}

\* the conditions of the four rules, on scale factors in 1/ScaleDen
Rule1(sp) == 10 * sp.shoulder_width_scale > 11 * sp.hip_width_scale
Rule2(sp) == 10 * sp.hip_width_scale > 11 * sp.shoulder_width_scale
Rule3(sp) ==
    /\ 10 * sp.waist_width_scale < 8 * sp.shoulder_width_scale
    /\ 10 * sp.waist_width_scale < 8 * sp.hip_width_scale
Rule4(sp) ==
    /\ sp.shoulder_width_scale - sp.hip_width_scale < Scale01
    /\ sp.hip_width_scale - sp.shoulder_width_scale < Scale01
    /\ sp.waist_width_scale > Scale09

\* C7: the body type is always one of the five types and is the result of the
\* first matching rule: rule 1 wins whatever the waist, rule 2 only when
\* rule 1 fails, and so on down to oval.
C7_FirstMatchingRuleWins ==
    Classified =>
        LET sp == model_params.shape_parameters
            bt == model_params.body_type
        IN  /\ bt \in BodyTypes
            /\ Rule1(sp) => bt = "inverted_triangle"
            /\ (~Rule1(sp) /\ Rule2(sp)) => bt = "pear"
            /\ (~Rule1(sp) /\ ~Rule2(sp) /\ Rule3(sp)) => bt = "hourglass"
            /\ (~Rule1(sp) /\ ~Rule2(sp) /\ ~Rule3(sp) /\ Rule4(sp))
                  => bt = "rectangle"
            /\ (~Rule1(sp) /\ ~Rule2(sp) /\ ~Rule3(sp) /\ ~Rule4(sp))
                  => bt = "oval"

\* shoulder 1.3, hip 1.0 and a waist that also satisfies rule 3
C7_Witness ==
    /\ Classified
    /\ model_params.shape_parameters.shoulder_width_scale = Scale13
    /\ model_params.shape_parameters.hip_width_scale = Scale10
    /\ Rule3(model_params.shape_parameters)
    /\ model_params.body_type = "inverted_triangle"

\* the KeyPointSet of the reference scenario: shoulders, hips and their
\* midpoints only
ScenarioKeyPoints ==
    [left_shoulder |-> Point(-200, 1500, 0),
     right_shoulder |-> Point(200, 1500, 0),
     left_hip |-> Point(-150, 800, 0),
     right_hip |-> Point(150, 800, 0),
     shoulder_center |-> Point(0, 1500, 0),
     hip_center |-> Point(0, 800, 0)]

\* C8: the pipeline run on the scenario KeyPointSet with reference height 170
\* yields shoulder_width 0.4, hip_width 0.3, shoulder and hip scales 1.3,
\* waist scale 1.04 and body type rectangle.
C8_ScenarioIsRectangle ==
    ( /\ MeasuredFromKeyPoints
      /\ landmarks_data.key_points = ScenarioKeyPoints
      /\ user_height = Some(170) )
    => /\ stage # "failed"
       /\ measurements.pixel_measurements["shoulder_width"] = 400
       /\ measurements.pixel_measurements["hip_width"] = 300
       /\ Classified =>
             /\ model_params.shape_parameters.shoulder_width_scale = Scale13
             /\ model_params.shape_parameters.hip_width_scale = Scale13
             /\ model_params.shape_parameters.waist_width_scale * 100 = 104 * ScaleDen
             /\ model_params.body_type = "rectangle"

\* C9: every index in every face of the synthesized mesh is a valid vertex
\* index, 0 <= index < len(vertices).
C9_FaceIndicesValid ==
    stage = "meshed" =>
        \A k \in 1..Len(mesh_data.faces) :
            \A j \in 1..Len(mesh_data.faces[k]) :
                /\ 0 <= mesh_data.faces[k][j]
                /\ mesh_data.faces[k][j] < Len(mesh_data.vertices)

\* a mesh whose last face ends at the last index but one
C9_Witness ==
    /\ stage = "meshed"
    /\ mesh_data.face_count > 0
    /\ mesh_data.faces[mesh_data.face_count][3] = Len(mesh_data.vertices) - 2

\* C10 (as stated): the synthesized mesh has at least 36 vertices.
C10_AtLeast36Vertices ==
    stage = "meshed" => Len(mesh_data.vertices) >= 36

\* C10 (amended): the synthesized mesh has exactly 28 vertices: 8 head,
\* 4 shoulder, 4 waist, 4 hip and 8 leg vertices.
C10_Exactly28Vertices ==
    stage = "meshed" =>
        /\ Len(mesh_data.vertices) = 28
        /\ mesh_data.vertex_count = 28

\* a mesh synthesized from shape parameters taller than the reference
C10_Witness ==
    /\ stage = "meshed"
    /\ model_params.shape_parameters.height_scale > Scale10
    /\ mesh_data.vertex_count = 28
    /\ mesh_data.vertices[28] = <<Mesh01, 0, -Mesh01>>

\* C21: the faces of the synthesized mesh are faces[k] = (3k, 3k+1, 3k+2) for
\* k = 0 .. floor(len(vertices)/3) - 1 over the emission order head ring,
\* shoulders, waist, hips, left leg, right leg; no vertex index is in two
\* faces, and the trailing vertices that do not fill a run of 3 are in no face.
C21_FacesGroupRunsOfThree ==
    stage = "meshed" =>
        LET vertices == mesh_data.vertices
            faces == mesh_data.faces
            n == Len(vertices)
            height_scale == model_params.shape_parameters.height_scale
            InFace(k) == {faces[k][j] : j \in 1..3}
        IN  /\ Len(faces) = n \div 3
            /\ \A k \in 1..Len(faces) :
                   faces[k] = <<3 * (k - 1), 3 * (k - 1) + 1, 3 * (k - 1) + 2>>
            /\ \A k, l \in 1..Len(faces) :
                   k # l => InFace(k) \cap InFace(l) = {}
            /\ \A i \in (3 * (n \div 3))..(n - 1) :
                   \A k \in 1..Len(faces) : i \notin InFace(k)
            /\ \A i \in 1..8 : vertices[i][2] = 170 * height_scale
            /\ \A i \in 9..12 : vertices[i][2] = 150 * height_scale
            /\ \A i \in 13..16 : vertices[i][2] = 100 * height_scale
            /\ \A i \in 17..20 : vertices[i][2] = 80 * height_scale
            /\ \A i \in 21..24 : vertices[i][1] = -Mesh01
            /\ \A i \in 25..28 : vertices[i][1] = Mesh01

\* a mesh of 28 vertices and 9 faces: the last vertex (the right ankle at
\* z = -0.1) is in no face
C21_Witness ==
    /\ stage = "meshed"
    /\ Len(mesh_data.vertices) = 28
    /\ Len(mesh_data.faces) = 9
    /\ mesh_data.faces[9] = <<24, 25, 26>>
    /\ mesh_data.vertices[28] = <<Mesh01, 0, -Mesh01>>

\* C25: the fit recommendations stored with the model parameters are the
\* table row (tops, bottoms, avoid) of the body type stored with them; the
\* table has a row for each of the five body types; a body type outside the
\* table maps to tops [classic_fit], bottoms [regular_fit], avoid [].
C25_RecommendationsAreTableRow ==
    /\ Classified =>
          /\ model_params.body_type \in DOMAIN recommendations
          /\ model_params.fit_recommendations =
                recommendations[model_params.body_type]
          /\ DOMAIN model_params.fit_recommendations = {"tops", "bottoms", "avoid"}
    /\ BodyTypes \subseteq DOMAIN recommendations
    /\ \A bt \in {"unknown", "apple", ""} :
          Get(recommendations, bt, DefaultRecommendation) =
              [tops |-> <<"classic_fit">>, bottoms |-> <<"regular_fit">>,
               avoid |-> <<>>]

\* shape parameters that the width rules and the waist rules classify
\* differently: pear by rule 2, although the waist is below 0.8 of both
C25_Witness ==
    /\ Classified
    /\ Rule2(model_params.shape_parameters)
    /\ Rule3(model_params.shape_parameters)
    /\ model_params.body_type = "pear"
    /\ model_params.fit_recommendations.avoid = <<"tight_tops", "wide_hips_emphasis">>

\* C26: shape parameters produced by the normalizer (waist scale
\* (shoulder + hip) / 2 * 0.8 of the clamped shoulder and hip scales) are
\* never classified hourglass: the body type is inverted_triangle, pear,
\* rectangle or oval, and it is oval when neither shoulder_width nor
\* hip_width was measured.
C26_NormalizedShapeNeverHourglass ==
    (Classified /\ measurements # NotRun) =>
        LET pixel_measurements == Get(measurements, "pixel_measurements", EmptyDict)
        IN  /\ model_params.body_type
                  \in {"inverted_triangle", "pear", "rectangle", "oval"}
            /\ ( /\ "shoulder_width" \notin DOMAIN pixel_measurements
                 /\ "hip_width" \notin DOMAIN pixel_measurements )
               => model_params.body_type = "oval"

\* measurements with neither width: both scales default to 1.0, the waist
\* scale is 0.8, and the type is oval
C26_Witness ==
    /\ Classified
    /\ measurements # NotRun
    /\ "shoulder_width" \notin DOMAIN Get(measurements, "pixel_measurements", EmptyDict)
    /\ "hip_width" \notin DOMAIN Get(measurements, "pixel_measurements", EmptyDict)
    /\ model_params.shape_parameters.waist_width_scale = Scale08
    /\ model_params.body_type = "oval"

(***************************************************************************)
(* Properties of the body-model API (checked under Spec)                   *)
(***************************************************************************)
\* the image uploaded for model_id decodes and has no detectable pose
NoSkeleton(model_id) ==
    /\ OriginalPath(model_id) \in DOMAIN files
    /\ files[OriginalPath(model_id)].decodable
    /\ files[OriginalPath(model_id)].pose = None

\* C3: when pose estimation reports no skeleton, create_body_model fails
\* before any measurement, shape-parameter or mesh step, the upload returns
\* no body model and stores no body-model record, and a get of that id
\* reports not found.
C3_NoSkeletonIsHardFailure ==
    \A model_id \in ModelIds :
        NoSkeleton(model_id) =>
            /\ ModelPath(model_id) \notin DOMAIN files
            /\ ( /\ response.op = "upload"
                 /\ response.status_code = 200
                 /\ response.content.model_id = model_id )
               => /\ response.content.status = "failed"
                  /\ "body_model" \notin DOMAIN response.content
                  /\ response.content.modeling_error
                        = Wrapped("Body modeling",
                                  [type |-> "Exception",
                                   arg |-> "Could not detect pose landmarks"])
                  /\ service_calls = <<"create_body_model", "extract_pose_landmarks">>
            /\ (response.op = "get" /\ response.content.model_id = model_id)
               => response.status_code = 404

\* a get after an upload that found no skeleton
C3_Witness ==
    /\ response.op = "get"
    /\ response.status_code = 404
    /\ NoSkeleton(response.content.model_id)

(***************************************************************************)
(* Properties of the fit analysis (checked under SpecFit)                  *)
(***************************************************************************)
\* the call named fn has returned
Returned(fn) == fit_call.fn = fn /\ fit_result # NotRun

\* the avoid strings of the call's recommendation record that are substrings
\* of its garment type
AvoidMatches ==
    {avoid_item \in Range(Get(fit_call.fit_recommendations, "avoid", <<>>)) :
        Contains(avoid_item, fit_call.clothing_type)}

\* C12: for every body type's recommendation record and every garment type,
\* also one containing several avoid strings, _calculate_fit_score returns a
\* value in [0, 1]; so does every fit_score of a fit analysis.
C12_FitScoreInUnitInterval ==
    /\ Returned("_calculate_fit_score") =>
          /\ fit_result.ok
          /\ fit_result.val \in 0..ScoreDen
    /\ (Returned("_analyze_clothing_fit") /\ fit_result.ok) =>
          \A clothing_id \in DOMAIN fit_result.val :
              fit_result.val[clothing_id].fit_score \in 0..ScoreDen

\* a garment type containing two avoid strings of the body type scores 0.3
C12_Witness ==
    /\ Returned("_calculate_fit_score")
    /\ Cardinality(AvoidMatches) = 2
    /\ fit_result.val = 3

\* C22: _calculate_fit_score returns 0.5, plus 0.3 if the garment type equals
\* an entry of the recommended tops or bottoms, minus 0.2 (once, however many
\* match) if an avoid entry is a substring of the garment type, clamped to
\* [0, 1]; so the result is one of 0.3, 0.5, 0.6, 0.8.
C22_FitScoreFormula ==
    Returned("_calculate_fit_score") =>
        LET rec == fit_call.fit_recommendations
            recommended ==
                \E list \in {"tops", "bottoms"} :
                    \E i \in 1..Len(Get(rec, list, <<>>)) :
                        Get(rec, list, <<>>)[i] = fit_call.clothing_type
            expected == 5 + (IF recommended THEN 3 ELSE 0)
                          - (IF AvoidMatches # {} THEN 2 ELSE 0)
        IN  /\ fit_result = Ok(Max(0, Min(ScoreDen, expected)))
            /\ fit_result.val \in {3, 5, 6, 8}

\* a recommended type that contains two avoid strings and equals neither
\* scores 0.6
C22_Witness ==
    /\ Returned("_calculate_fit_score")
    /\ fit_call.clothing_type
          \in Range(Get(fit_call.fit_recommendations, "tops", <<>>))
    /\ Cardinality(AvoidMatches) = 2
    /\ fit_call.clothing_type \notin AvoidMatches
    /\ fit_result.val = 6

\* the garment has no analysis file, or one that does not open and parse
NoReadableRecord(clothing_id) ==
    \/ AnalysisPath(clothing_id) \notin DOMAIN clothing
    \/ ~clothing[AnalysisPath(clothing_id)].readable

\* C13: whichever requested garments have no readable analysis record, the
\* fit analysis returns an entry for every requested garment, and a garment
\* without a readable record is analysed as type "unknown" with the base
\* score 0.5.
C13_MissingRecordFallsBack ==
    Returned("_analyze_clothing_fit") =>
        /\ fit_result.ok
        /\ DOMAIN fit_result.val = Range(fit_call.clothing_ids)
        /\ \A clothing_id \in Range(fit_call.clothing_ids) :
              NoReadableRecord(clothing_id) =>
                  /\ fit_result.val[clothing_id].clothing_type = "unknown"
                  /\ fit_result.val[clothing_id].fit_score * 2 = ScoreDen

\* a request for a garment with no file, after a garment whose file does not
\* parse or before a garment with a record
C13_Witness ==
    /\ Returned("_analyze_clothing_fit")
    /\ Len(fit_call.clothing_ids) = 2
    /\ AnalysisPath(fit_call.clothing_ids[2]) \notin DOMAIN clothing
    /\ AnalysisPath(fit_call.clothing_ids[1]) \in DOMAIN clothing
    /\ ~clothing[AnalysisPath(fit_call.clothing_ids[1])].readable
    /\ fit_result.ok
    /\ fit_result.val[fit_call.clothing_ids[2]].clothing_type = "unknown"

\* C17: _suggest_size returns XS for a real shoulder_width w < 35, S for
\* 35 <= w < 40, M for 40 <= w < 45, L for 45 <= w < 50, XL for w >= 50, and
\* M when real_measurements has no shoulder_width.
C17_SizeBuckets ==
    Returned("_suggest_size") =>
        LET real == fit_call.body_model.measurements.real_measurements
            size == fit_result.val
        IN  IF "shoulder_width" \notin DOMAIN real THEN size = "M"
            ELSE LET w == real["shoulder_width"]
                 IN  /\ w < 35000 => size = "XS"
                     /\ (35000 <= w /\ w < 40000) => size = "S"
                     /\ (40000 <= w /\ w < 45000) => size = "M"
                     /\ (45000 <= w /\ w < 50000) => size = "L"
                     /\ w >= 50000 => size = "XL"

\* a shoulder width of exactly 35 cm is an S
C17_Witness ==
    /\ Returned("_suggest_size")
    /\ fit_call.body_model.measurements.real_measurements # EmptyDict
    /\ fit_call.body_model.measurements.real_measurements["shoulder_width"] = 35000
    /\ fit_result.val = "S"

\* C23: the shoulders.left/right and hips.left/right anchors are the body
\* model's left_shoulder, right_shoulder, left_hip and right_hip key points
\* where present and (-0.2, 1.5, 0), (0.2, 1.5, 0), (-0.15, 0.8, 0),
\* (0.15, 0.8, 0) where absent, each side by itself; waist.center is always
\* (0, 1.0, 0) and chest.center always (0, 1.3, 0).
C23_AnchorsFromKeyPointsOrDefaults ==
    Returned("_generate_anchor_points") =>
        LET key_points ==
                Get(Get(fit_call.body_model, "landmarks", EmptyDict),
                    "key_points", EmptyDict)
            anchors == fit_result.val
            Side(anchor, name, x, y) ==
                IF name \in DOMAIN key_points
                THEN anchor = key_points[name]
                ELSE anchor = [x |-> x, y |-> y, z |-> 0]
        IN  /\ fit_result.ok
            /\ Side(anchors.shoulders.left, "left_shoulder", -200, 1500)
            /\ Side(anchors.shoulders.right, "right_shoulder", 200, 1500)
            /\ Side(anchors.hips.left, "left_hip", -150, 800)
            /\ Side(anchors.hips.right, "right_hip", 150, 800)
            /\ anchors.waist = [center |-> [x |-> 0, y |-> 1000, z |-> 0]]
            /\ anchors.chest = [center |-> [x |-> 0, y |-> 1300, z |-> 0]]

\* a body model with the left shoulder and the right hip among its key
\* points and the other two missing
C23_Witness ==
    /\ Returned("_generate_anchor_points")
    /\ "landmarks" \in DOMAIN fit_call.body_model
    /\ "key_points" \in DOMAIN fit_call.body_model.landmarks
    /\ DOMAIN fit_call.body_model.landmarks.key_points
          \cap {"left_shoulder", "right_shoulder", "left_hip", "right_hip"}
          = {"left_shoulder", "right_hip"}
    /\ fit_result.val.shoulders.left = fit_call.body_model.landmarks.key_points.left_shoulder
    /\ fit_result.val.shoulders.left # [x |-> -200, y |-> 1500, z |-> 0]
    /\ fit_result.val.shoulders.right = [x |-> 200, y |-> 1500, z |-> 0]
    /\ fit_result.val.hips.left = [x |-> -150, y |-> 800, z |-> 0]

\* C24: for a mesh with at least one vertex _calculate_body_bounds returns
\* the per-axis minimum and maximum over all vertices, those in no face
\* included (min <= max on each axis, every vertex inside the box); for a
\* mesh with no vertices it returns min (-1, 0, -1), max (1, 2, 1).
C24_BoundsAreVertexExtremes ==
    Returned("_calculate_body_bounds") =>
        LET vertices == Get(fit_call.body_mesh, "vertices", <<>>)
            box == fit_result.val
            index == [x |-> 1, y |-> 2, z |-> 3]
        IN  /\ fit_result.ok
            /\ IF vertices = <<>>
               THEN box = [min |-> [x |-> -MeshDen, y |-> 0, z |-> -MeshDen],
                           max |-> [x |-> MeshDen, y |-> 2 * MeshDen, z |-> MeshDen]]
               ELSE \A a \in {"x", "y", "z"} :
                       /\ box.min[a] <= box.max[a]
                       /\ \A k \in 1..Len(vertices) :
                              /\ box.min[a] <= vertices[k][index[a]]
                              /\ vertices[k][index[a]] <= box.max[a]
                       /\ \E k \in 1..Len(vertices) : vertices[k][index[a]] = box.min[a]
                       /\ \E k \in 1..Len(vertices) : vertices[k][index[a]] = box.max[a]

\* a mesh of four vertices whose last vertex, in no face, is the only one at
\* the top and at the left of the box
C24_Witness ==
    /\ Returned("_calculate_body_bounds")
    /\ Len(Get(fit_call.body_mesh, "vertices", <<>>)) = 4
    /\ fit_call.body_mesh.faces = << <<0, 1, 2>> >>
    /\ \A k \in 1..3 : fit_call.body_mesh.vertices[k][2] = 0
    /\ fit_call.body_mesh.vertices[4] = <<-Mesh01, 170 * Scale10, Mesh01>>
    /\ fit_result.val.max.y = 170 * Scale10
    /\ fit_result.val.min.x = -Mesh01

(***************************************************************************)
(* Properties of stored body models (checked under SpecStore)              *)
(***************************************************************************)
\* the ids with a stored body model
StoredIds == {model_id \in 1..(MaxStored + 1) : ModelPath(model_id) \in DOMAIN files}

\* the stored model has been through a measurement update
Updated(model_id) == "updated_at" \in DOMAIN files[ModelPath(model_id)]

\* C11: after any sequence of creations and measurement updates, the stored
\* mesh of every body model is the Mesh Synthesizer's output for the stored
\* model parameters, and the stored body type and fit recommendations are
\* those of the stored shape parameters.
C11_StoredMeshMatchesShape ==
    \A model_id \in StoredIds :
        LET model_data == files[ModelPath(model_id)]
            shape_params == model_data.model_params.shape_parameters
        IN  /\ create_body_mesh(model_data.model_params) = Ok(model_data.mesh_data)
            /\ model_data.model_params.body_type = _classify_body_type(shape_params)
            /\ model_data.model_params.fit_recommendations
                  = _generate_fit_recommendations(shape_params)

\* a model created at 170 cm and updated to 180 cm: the head of the stored
\* mesh is at the new height
C11_Witness ==
    \E model_id \in StoredIds :
        LET model_data == files[ModelPath(model_id)]
        IN  /\ Updated(model_id)
            /\ model_data.measurements.estimated_height = 180
            /\ model_data.model_params.shape_parameters.height_scale
                  = HeightScale(180)
            /\ model_data.mesh_data.vertices[1][2] = 170 * HeightScale(180)

\* C16: running the Shape Normalizer and then the Mesh Synthesizer again on
\* the landmarks and measurements of a stored body model reproduces the
\* stored shape parameters, body type, vertices and faces, whatever
\* creations and updates came before.
C16_RerunReproducesStoredModel ==
    \A model_id \in StoredIds :
        LET model_data == files[ModelPath(model_id)]
            rerun == generate_3d_model_params(model_data.landmarks,
                                              model_data.measurements)
            mesh == create_body_mesh(rerun.val)
        IN  /\ rerun.ok
            /\ rerun.val.shape_parameters = model_data.model_params.shape_parameters
            /\ rerun.val.body_type = model_data.model_params.body_type
            /\ mesh.ok
            /\ mesh.val.vertices = model_data.mesh_data.vertices
            /\ mesh.val.faces = model_data.mesh_data.faces

\* a model after its second update, 180 cm supplied by one of the two and no
\* weight by either
C16_Witness ==
    /\ response.op = "update"
    /\ response.status_code = 200
    /\ response.content.updated_at = 2
    /\ response.content.updated_measurements.estimated_height = 180
    /\ "weight" \notin DOMAIN response.content.updated_measurements
    /\ files[ModelPath(response.content.model_id)] = response.content.body_model

\* C29: a measurement update of a stored body model leaves its key points,
\* pixel_measurements and real_measurements as they were, and with them the
\* shoulder, hip, waist and leg scales and the body type; of the shape
\* parameters only height_scale can change, and only when a non-zero height
\* is supplied, to height / 170.  (An update that fails writes nothing.)
C29_UpdateLeavesShapeButHeight ==
    [][\A model_id \in 1..(MaxStored + 1), height \in UpdateHeights,
          weight \in UpdateWeights, girths \in UpdateGirths :
          LET old == files[ModelPath(model_id)]
              new == files'[ModelPath(model_id)]
              old_shape == old.model_params.shape_parameters
              new_shape == new.model_params.shape_parameters
              \* what the next state shows of every successful update of
              \* this model with these fields
              Answered ==
                  /\ model_id \in StoredIds
                  /\ response'.op = "update"
                  /\ response'.status_code = 200
                  /\ response'.content.model_id = model_id
                  /\ new.measurements
                        = UpdatedMeasurements(old, height, weight,
                                              girths[1], girths[2], girths[3])
              Frame ==
                  /\ new.landmarks = old.landmarks
                  /\ new.measurements.pixel_measurements
                        = old.measurements.pixel_measurements
                  /\ new.measurements.real_measurements
                        = old.measurements.real_measurements
                  /\ \A key \in {"shoulder_width_scale", "hip_width_scale",
                                 "waist_width_scale", "leg_length_scale"} :
                         new_shape[key] = old_shape[key]
                  /\ DOMAIN new_shape = DOMAIN old_shape
                  /\ new.model_params.body_type = old.model_params.body_type
                  /\ new_shape.height_scale # old_shape.height_scale
                        => Truthy(height)
                  /\ Truthy(height)
                        => new_shape.height_scale = HeightScale(Val(height))
          IN  \* (Answered /\ update step) => Frame
              Answered
              => \/ Frame
                 \/ ~UpdateBodyMeasurements(model_id, height, weight,
                                            girths[1], girths[2], girths[3])
      ]_vars

\* the response of an update that supplied 180 cm and no weight to a model
\* measured at 170 cm: the real measurements are still there, the height
\* scale is 180 / 170
C29_Witness ==
    /\ response.op = "update"
    /\ response.status_code = 200
    /\ response.content.updated_measurements.estimated_height = 180
    /\ "weight" \notin DOMAIN response.content.updated_measurements
    /\ response.content.updated_measurements.real_measurements # EmptyDict
    /\ response.content.body_model.model_params.shape_parameters.height_scale
          = HeightScale(180)

(***************************************************************************)
(* Properties of interleaved executions (checked under SpecConcurrent)     *)
(***************************************************************************)
\* what create_body_model returns for the request when it runs alone
RunAlone(request) ==
    create_body_model(Image(TRUE, Some(request.landmarks)), request.user_height)

\* C18: whatever the interleaving of the steps of two executions, each
\* execution that has finished holds exactly the result (body model or
\* failure) create_body_model produces for its request when run alone, and
\* an execution's request is never changed.
C18_InterleavingPreservesResults ==
    \A p \in RunIds :
        LET l == runs[p].locals
            alone == RunAlone(runs[p].request)
        IN  /\ l.stage = "meshed" =>
                  /\ alone.ok
                  /\ alone.val = [landmarks |-> l.landmarks_data,
                                  measurements |-> l.measurements,
                                  model_params |-> l.model_params,
                                  mesh_data |-> l.mesh_data,
                                  status |-> "success"]
            /\ l.stage = "failed" =>
                  /\ ~alone.ok
                  /\ alone.err = Wrapped("Body modeling", l.error)
            /\ l.landmarks_data.landmarks = runs[p].request.landmarks
            /\ l.user_height = runs[p].request.user_height

\* the second execution has finished with a mesh while the first, on another
\* skeleton, is between its measurement and shape steps
C18_Witness ==
    /\ runs[1].locals.stage = "measured"
    /\ runs[2].locals.stage = "meshed"
    /\ runs[1].request.landmarks # runs[2].request.landmarks
    /\ runs[1].request.user_height # runs[2].request.user_height
    /\ runs[1].locals.measurements.pixel_measurements
          # runs[2].locals.measurements.pixel_measurements


(***************************************************************************)
(* Properties of try-on sessions (checked under SpecTryon)                 *)
(***************************************************************************)
\* the session ids that have a session file
StoredSessions ==
    {session_id \in 2..(MaxSessions + 2) :
        <<session_id, "_session.json">> \in DOMAIN sessions}

\* C28: after any sequence of create-session, add-clothing and update-pose
\* requests, one at a time, the clothing_meshes of the stored tryon_result
\* list exactly the session's clothing_ids, in the same order, and the keys
\* of fit_adjustments.clothing_specific are the set of the clothing_ids.
C28_TryonResultMatchesClothingIds ==
    \A session_id \in StoredSessions :
        LET file == sessions[<<session_id, "_session.json">>]
            clothing_ids == file.value.clothing_ids
            tryon_result == file.value.tryon_result
        IN  /\ file.readable
            /\ Len(tryon_result.clothing_meshes) = Len(clothing_ids)
            /\ \A i \in 1..Len(clothing_ids) :
                   tryon_result.clothing_meshes[i].clothing_id = clothing_ids[i]
            /\ DOMAIN tryon_result.fit_adjustments.clothing_specific
                  = {clothing_ids[i] : i \in 1..Len(clothing_ids)}

\* a session created with garments 2 and 1, to which garment 3 was added and
\* whose pose was then changed
C28_Witness ==
    \E session_id \in StoredSessions :
        LET session_data == sessions[<<session_id, "_session.json">>].value
        IN  /\ session_data.clothing_ids = <<2, 1, 3>>
            /\ session_data.pose_type = "walking"
            /\ session_data.updated_at = 3
            /\ Len(session_data.tryon_result.clothing_meshes) = 3
            /\ session_data.tryon_result.generated_at = 3

\* C30: add-clothing with a garment id that is already among the session's
\* clothing_ids leaves the stored session record as it was: no duplicate is
\* appended, tryon_result is not regenerated and updated_at is not modified.
C30_AddClothingIdempotent ==
    [][\A session_id \in StoredSessions, clothing_id \in 1..(MaxGarments + 2) :
          ( /\ \E i \in 1..Len(sessions[<<session_id, "_session.json">>].value.clothing_ids) :
                  sessions[<<session_id, "_session.json">>].value.clothing_ids[i]
                      = clothing_id
            /\ response'.op = "add-clothing"
            /\ AddClothingToTryon(session_id, clothing_id) )
          => /\ sessions' = sessions
             /\ response'.status_code = 200
             /\ response'.content.clothing_ids
                   = sessions[<<session_id, "_session.json">>].value.clothing_ids
      ]_vars

\* the answer to an add-clothing request for the garment a session was
\* created with: the stored record has one garment and no updated_at
C30_Witness ==
    /\ response.op = "add-clothing"
    /\ response.status_code = 200
    /\ response.content.clothing_ids = <<2>>
    /\ \E session_id \in StoredSessions :
          LET session_data == sessions[<<session_id, "_session.json">>].value
          IN  /\ session_data.clothing_ids = <<2>>
              /\ "updated_at" \notin DOMAIN session_data
              /\ session_data.tryon_result.generated_at = session_data.created_at

(***************************************************************************)
(* Properties of interleaved add-clothing requests (checked under          *)
(* SpecAddClothing)                                                        *)
(***************************************************************************)
\* C27: when two add-clothing requests for two different existing garment
\* ids on the same try-on session, interleaved at the awaits, have both been
\* answered, the stored session's clothing_ids contains both garment ids.
C27_BothGarmentsStored ==
    LET a == runs[1]
        b == runs[2]
        session_path == <<a.request.session_id, "_session.json">>
        Exists(clothing_id) ==
            \/ <<clothing_id, "_processed.png">> \in DOMAIN clothing
            \/ <<clothing_id, "_original.jpg">> \in DOMAIN clothing
    IN  ( /\ a.request.session_id = b.request.session_id
          /\ a.request.clothing_id # b.request.clothing_id
          /\ Exists(a.request.clothing_id)
          /\ Exists(b.request.clothing_id)
          /\ a.locals.pc = "done"
          /\ b.locals.pc = "done"
          /\ a.locals.response.status_code # 404
          /\ b.locals.response.status_code # 404 )
        => /\ sessions[session_path].readable
           /\ \E i \in 1..Len(sessions[session_path].value.clothing_ids) :
                  sessions[session_path].value.clothing_ids[i] = a.request.clothing_id
           /\ \E i \in 1..Len(sessions[session_path].value.clothing_ids) :
                  sessions[session_path].value.clothing_ids[i] = b.request.clothing_id
====
